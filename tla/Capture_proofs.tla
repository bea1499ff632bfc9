------------------------- MODULE Capture_proofs -------------------------
(***************************************************************************)
(* Theorems about Capture, for any frames a pcapng file can hold (less     *)
(* than 2^31 bytes), any length at which pcap cuts them, any link types,   *)
(* number of frames (fewer than 2^32) and of signals: a saved capture      *)
(* reads back as far as its format keeps its packets, and one that was cut *)
(* short as a beginning of that.                                           *)
(*                                                                         *)
(* The files first, without any state: numbers and their bytes; what       *)
(* stands where in a file that holds whole blocks and part of the next;    *)
(* the places its reader comes to; then pcap, lbn and pcapng.  The states  *)
(* of a capture, and what they leave on disk, are the last part.           *)
(***************************************************************************)
EXTENDS Capture, FiniteSetTheorems, SequenceTheorems, TLAPS

\* The lemmas on FlattenSeq, which do not depend on the constants of that module.
S == INSTANCE TargetResults_proofs WITH Ports <- {}, Texts <- {}

-----------------------------------------------------------------------------
(* Numbers and their bytes *)

\* The numbers of 32 bits, and what four bytes are, the least significant first.
Word32     == {n \in Nat : n < 16777216 * 256}
ValueOf(b) == b[1] + 256 * b[2] + 65536 * b[3] + 16777216 * b[4]

\* A number of 32 bits is four bytes, and read back as itself in the order it was written.
LEMMA NumberBytes ==
  ASSUME NEW n \in Word32, NEW order \in Orders
  PROVE  /\ Number(n, order) \in Seq(Byte)
         /\ Len(Number(n, order)) = 4
         /\ ValueOf(InOrder(Number(n, order), order)) = n
<1> DEFINE b1 == n % 256
           b2 == (n \div 256) % 256
           b3 == (n \div 65536) % 256
           b4 == (n \div 16777216) % 256
           q  == <<b1, b2, b3, b4>>
           r  == <<b4, b3, b2, b1>>
<1>1. b1 \in Byte /\ b2 \in Byte /\ b3 \in Byte /\ b4 \in Byte
  BY SMT DEF Byte, Word32
<1>2. b1 + 256 * b2 + 65536 * b3 + 16777216 * b4 = n
  <2>1. n \in Nat /\ n < 16777216 * 256
    BY DEF Word32
  <2>2. n = 256 * (n \div 256) + b1 /\ n \div 256 \in Nat
    BY <2>1, SMT
  <2>3. n \div 65536 = (n \div 256) \div 256
    BY <2>1, SMT
  <2>4. n \div 16777216 = (n \div 65536) \div 256
    BY <2>1, SMT
  <2>5. n \div 256 = 256 * (n \div 65536) + b2 /\ n \div 65536 \in Nat
    BY <2>1, <2>2, <2>3, SMT
  <2>6. n \div 65536 = 256 * (n \div 16777216) + b3 /\ n \div 16777216 \in Nat
    BY <2>1, <2>5, <2>4, SMT
  <2>7. n \div 16777216 < 256 
    BY <2>1, SMT
  <2>8. b4 = n \div 16777216 
    BY <2>6, <2>7, SMT
  <2> DEFINE n2 == n \div 256
             n3 == n \div 65536
             n4 == n \div 16777216
  <2>9. /\ n = 256 * n2 + b1 /\ n2 = 256 * n3 + b2 /\ n3 = 256 * n4 + b3 /\ n4 = b4
        /\ n2 \in Nat /\ n3 \in Nat /\ n4 \in Nat /\ n \in Nat
        /\ b1 \in Nat /\ b2 \in Nat /\ b3 \in Nat /\ b4 \in Nat
    BY <1>1, <2>1, <2>2, <2>5, <2>6, <2>8, SMT DEF Byte
  <2> HIDE DEF b1, b2, b3, b4, n2, n3, n4
  <2> QED
    BY <2>9, SMT
<1>3. Number(n, order) = InOrder(q, order)
  BY SMT DEF Number
<1> HIDE DEF b1, b2, b3, b4
<1>4. Reverse(q) = r /\ Reverse(r) = q
  BY DEF Reverse
<1>5. Number(n, order) = IF order = "little" THEN q ELSE r
  BY <1>3, <1>4 DEF InOrder
<1>6. q \in Seq(Byte) /\ r \in Seq(Byte) /\ Len(q) = 4 /\ Len(r) = 4
  BY <1>1
<1>7. InOrder(Number(n, order), order) = q
  BY <1>4, <1>5 DEF InOrder
<1>8. ValueOf(q) = n
  BY <1>2, SMT DEF ValueOf
<1> QED
  BY <1>5, <1>6, <1>7, <1>8

-----------------------------------------------------------------------------
(* What stands where in a file *)

\* The first m bytes of b stand at offset p of the file, and the whole of it does.
Begins(q, p, b, m) ==
  /\ p + m <= Len(q)
  /\ m <= Len(b)
  /\ \A k \in 1..m : q[p + k] = b[k]
Holds(q, p, b) == Begins(q, p, b, Len(b))

\* What holds a concatenation holds its parts, one after the other ...
LEMMA HoldsParts ==
  ASSUME NEW T, NEW q \in Seq(T), NEW p \in Nat, NEW b \in Seq(T), NEW c \in Seq(T),
         Holds(q, p, b \o c)
  PROVE  Holds(q, p, b) /\ Holds(q, p + Len(b), c)
<1> DEFINE m == Len(b)
           n == Len(c)
           d == b \o c
<1>1. /\ m \in Nat /\ n \in Nat /\ Len(d) = m + n
      /\ \A i \in 1..(m + n) : d[i] = IF i <= m THEN b[i] ELSE c[i - m]
  BY ConcatProperties
<1>2. p + (m + n) <= Len(q) /\ \A k \in 1..(m + n) : q[p + k] = d[k]
  BY <1>1 DEF Holds, Begins
<1> HIDE DEF d, m, n
<1>3. ASSUME NEW k \in 1..m PROVE q[p + k] = b[k]
  <2>1. k \in 1..(m + n) /\ k <= m
    BY <1>1
  <2> QED
    BY <1>1, <1>2, <2>1
<1>4. ASSUME NEW k \in 1..n PROVE q[(p + m) + k] = c[k]
  <2>1. m + k \in 1..(m + n) /\ ~(m + k <= m) /\ (m + k) - m = k /\ p + (m + k) = (p + m) + k
    BY <1>1
  <2> QED
    BY <1>1, <1>2, <2>1
<1>5. p + m <= Len(q) /\ (p + m) + n <= Len(q)
  BY <1>1, <1>2
<1>6. m <= m /\ n <= n
  BY <1>1
<1> QED
  BY <1>3, <1>4, <1>5, <1>6 DEF Holds, Begins, m, n

\* ... and so does what holds enough of it.
LEMMA BeginsPart ==
  ASSUME NEW T, NEW q \in Seq(T), NEW p \in Nat, NEW b \in Seq(T), NEW c \in Seq(T),
         NEW n \in Nat, n >= Len(b), Begins(q, p, b \o c, n)
  PROVE  Holds(q, p, b)
<1> DEFINE m == Len(b)
           d == b \o c
<1>1. /\ m \in Nat /\ m <= n /\ Len(q) \in Nat /\ Len(d) = m + Len(c) /\ Len(c) \in Nat
      /\ \A i \in 1..(m + Len(c)) : d[i] = IF i <= m THEN b[i] ELSE c[i - m]
  BY ConcatProperties
<1>2. p + n <= Len(q) /\ n <= Len(d) /\ \A k \in 1..n : q[p + k] = d[k]
  BY DEF Begins
<1> HIDE DEF d, m
<1>3. ASSUME NEW k \in 1..m PROVE q[p + k] = b[k]
  <2>1. k \in 1..n /\ k \in 1..(m + Len(c)) /\ k <= m
    BY <1>1, <1>2
  <2> QED
    BY <1>1, <1>2, <2>1
<1>4. p + m <= Len(q) /\ m <= m
  BY <1>1, <1>2
<1> QED
  BY <1>3, <1>4 DEF Holds, Begins, m

\* The bytes of what stands there.
LEMMA HoldsBytes ==
  ASSUME NEW T, NEW q \in Seq(T), NEW p \in Nat, NEW b \in Seq(T), Holds(q, p, b)
  PROVE  Bytes(q, p, Len(b)) = b
<1> DEFINE m == Len(b)
           s == SubSeq(q, p + 1, p + m)
<1>1. m \in Nat /\ Len(q) \in Nat /\ p + m <= Len(q) /\ \A k \in 1..m : q[p + k] = b[k]
  BY DEF Holds, Begins
<1>2. Bytes(q, p, m) = s
  BY <1>1 DEF Bytes
<1>3. s = [i \in 1..m |-> q[p + i]]
  <2>1. Len(s) = m /\ s \in Seq(T) /\ \A i \in 1..m : s[i] = q[p + i]
    <3> HIDE DEF m
    <3>1. p + 1 \in Int /\ p + m \in Int /\ \A i \in (p + 1)..(p + m) : q[i] \in T
      <4>1. \A i \in (p + 1)..(p + m) : i \in 1..Len(q)
        BY <1>1
      <4> QED
        BY <1>1, <4>1
    <3>2. s \in Seq(T) /\ Len(s) = (IF p + 1 <= p + m THEN (p + m) - (p + 1) + 1 ELSE 0)
      BY <1>1, <3>1, SubSeqProperties
    <3>3. \A i \in 1..((p + m) - (p + 1) + 1) : s[i] = q[(p + 1) + i - 1]
      BY <1>1, <3>1, SubSeqProperties
    <3>4. (p + m) - (p + 1) + 1 = m /\ (IF p + 1 <= p + m THEN (p + m) - (p + 1) + 1 ELSE 0) = m
      BY <1>1
    <3>5. \A i \in 1..m : (p + 1) + i - 1 = p + i
      BY <1>1
    <3> HIDE DEF s
    <3> QED
      BY <3>2, <3>3, <3>4, <3>5
  <2> HIDE DEF s, m
  <2> QED
    BY <1>1, <2>1
<1>4. b = [i \in 1..m |-> b[i]]
  OBVIOUS
<1> HIDE DEF s, m
<1> QED
  BY <1>1, <1>2, <1>3, <1>4 DEF m

\* A byte is a number.
LEMMA ByteNumber == \A x \in Byte : x \in Nat
BY DEF Byte

\* Word is the value of four bytes.
LEMMA WordValue ==
  ASSUME NEW q, NEW p, NEW order
  PROVE  Word(q, p, order) = ValueOf(InOrder(Bytes(q, p, 4), order))
BY SMT DEF Word, ValueOf

\* Where a number was written it is read.
LEMMA HoldsNumber ==
  ASSUME NEW q \in Seq(Byte), NEW p \in Nat, NEW n \in Word32, NEW order \in Orders,
         Holds(q, p, Number(n, order))
  PROVE  Word(q, p, order) = n
<1>1. /\ Number(n, order) \in Seq(Byte)
      /\ Len(Number(n, order)) = 4
      /\ ValueOf(InOrder(Number(n, order), order)) = n
  BY NumberBytes
<1>2. Bytes(q, p, Len(Number(n, order))) = Number(n, order)
  BY <1>1, HoldsBytes
<1> QED
  BY <1>1, <1>2, WordValue

\* What is read of a file is its bytes, and four of them are a number of 32 bits.
LEMMA BytesType ==
  ASSUME NEW T, NEW q \in Seq(T), NEW p \in Nat, NEW n \in Nat
  PROVE  /\ Bytes(q, p, n) \in Seq(T)
         /\ p + n <= Len(q) => Len(Bytes(q, p, n)) = n
<1> DEFINE e == IF p + n <= Len(q) THEN p + n ELSE Len(q)
<1>1. p + 1 \in Int /\ e \in Int /\ \A i \in (p + 1)..e : q[i] \in T
  <2>1. \A i \in (p + 1)..e : i \in 1..Len(q)
    OBVIOUS
  <2> QED
    BY <2>1
<1>2. Bytes(q, p, n) = SubSeq(q, p + 1, e)
  BY DEF Bytes
<1>3. p + n <= Len(q) => e = p + n /\ (IF p + 1 <= e THEN e - (p + 1) + 1 ELSE 0) = n
  OBVIOUS
<1> HIDE DEF e
<1> QED
  BY <1>1, <1>2, <1>3, SubSeqProperties

\* Four bytes of a file are a number.
LEMMA WordNumber ==
  ASSUME NEW q \in Seq(Byte), NEW p \in Nat, NEW order, p + 4 <= Len(q)
  PROVE  Word(q, p, order) \in Nat
<1> DEFINE b == Bytes(q, p, 4)
<1>1. b \in Seq(Byte) /\ Len(b) = 4
  BY BytesType
<1> HIDE DEF b
<1>2. b[1] \in Byte /\ b[2] \in Byte /\ b[3] \in Byte /\ b[4] \in Byte
  <2>1. \A i \in 1..Len(b) : b[i] \in Byte
    BY <1>1, ElementOfSeq
  <2>2. 1 \in 1..4 /\ 2 \in 1..4 /\ 3 \in 1..4 /\ 4 \in 1..4
    OBVIOUS
  <2> QED
    BY <1>1, <2>1, <2>2
<1>3. Reverse(b) = <<b[4], b[3], b[2], b[1]>>
  BY <1>1 DEF Reverse
<1> DEFINE r == InOrder(b, order)
<1>4. r[1] \in Byte /\ r[2] \in Byte /\ r[3] \in Byte /\ r[4] \in Byte
  BY <1>2, <1>3 DEF InOrder
<1> HIDE DEF r
<1>6. r[1] \in Nat /\ r[2] \in Nat /\ r[3] \in Nat /\ r[4] \in Nat
  BY <1>4, ByteNumber
<1>7. \A i, j, k, l \in Nat : i + 256 * j + 65536 * k + 16777216 * l \in Nat
  BY SMT
<1>8. ValueOf(r) \in Nat
  <2> DEFINE i == r[1]
             j == r[2]
             k == r[3]
             l == r[4]
  <2>1. i \in Nat /\ j \in Nat /\ k \in Nat /\ l \in Nat
    BY <1>6
  <2>2. ValueOf(r) = i + 256 * j + 65536 * k + 16777216 * l
    BY SMT DEF ValueOf
  <2> HIDE DEF i, j, k, l
  <2> QED
    BY <1>7, <2>1, <2>2, SMT
<1> QED
  BY <1>8, WordValue DEF b, r

-----------------------------------------------------------------------------
(* The places a reader comes to *)

\* The recursion of Places.
Coming(g, next) == g = [q \in Nat |-> IF next[q] = q THEN <<q>> ELSE <<q>> \o g[next[q]]]

\* No place is before the one it follows, and every place from n on is the last.
Forward(next, n) ==
  \A q \in Nat : next[q] \in Nat /\ next[q] >= q /\ (q >= n => next[q] = q)

\* o[1], ..., o[w] follow each other, and the last is its own successor.
Steps(next, o, w) ==
  /\ \A i \in 1..w : o[i] \in Nat
  /\ \A i \in 1..w : i < w => next[o[i]] = o[i + 1] /\ o[i + 1] # o[i]
  /\ next[o[w]] = o[w]

\* The recursion of Places is well founded when they go forward: it is solved from n
\* downwards.
LEMMA ComingExists ==
  ASSUME NEW next, NEW n \in Nat, Forward(next, n)
  PROVE  \E g : Coming(g, next)
<1> USE DEF Forward
<1> DEFINE Right(g, q) == g[q] = IF next[q] = q THEN <<q>> ELSE <<q>> \o g[next[q]]
           From(g, m) == g = [q \in Nat |-> g[q]] /\ \A q \in Nat : q >= m => Right(g, q)
           K == {i \in Nat : \E g : From(g, (n + 1) - i)}
<1>1. 1 \in K
  <2> DEFINE g == [q \in Nat |-> <<q>>]
  <2>1. From(g, n)
    <3>1. ASSUME NEW q \in Nat, q >= n PROVE Right(g, q)
      <4>1. next[q] = q /\ g[q] = <<q>>
        BY <3>1
      <4> HIDE DEF g
      <4> QED
        BY <4>1
    <3>2. g = [q \in Nat |-> g[q]]
      OBVIOUS
    <3> HIDE DEF g
    <3> QED
      BY <3>1, <3>2
  <2>2. (n + 1) - 1 = n
    OBVIOUS
  <2> QED
    BY <2>1, <2>2
<1>2. ASSUME NEW i \in 1..(n + 1), i \in K, i < n + 1 PROVE i + 1 \in K
  <2> DEFINE m == (n + 1) - (i + 1)
  <2>1. m \in Nat /\ (n + 1) - i = m + 1
    BY <1>2
  <2>2. PICK g : From(g, m + 1)
    BY <1>2, <2>1
  <2> HIDE DEF m
  <2> DEFINE x == IF next[m] = m THEN <<m>> ELSE <<m>> \o g[next[m]]
             h == [q \in Nat |-> IF q = m THEN x ELSE g[q]]
  <2>3. ASSUME NEW q \in Nat, q >= m PROVE Right(h, q)
    <3>1. next[q] \in Nat /\ next[q] >= q
      OBVIOUS
    <3>2. CASE q = m
      <4>1. h[q] = x
        BY <3>2
      <4>2. next[m] # m => h[next[m]] = g[next[m]]
        BY <3>1, <3>2
      <4> QED
        BY <3>2, <4>1, <4>2
    <3>3. CASE q # m
      <4>1. q >= m + 1 /\ next[q] # m
        BY <2>1, <2>3, <3>1, <3>3
      <4>2. Right(g, q)
        BY <2>2, <4>1
      <4>3. h[q] = g[q] /\ h[next[q]] = g[next[q]]
        BY <3>1, <3>3, <4>1
      <4> HIDE DEF h
      <4> QED
        BY <4>2, <4>3
    <3> QED
      BY <3>2, <3>3
  <2>4. h = [q \in Nat |-> h[q]]
    OBVIOUS
  <2> HIDE DEF h
  <2>5. From(h, m)
    BY <2>3, <2>4
  <2>6. i + 1 \in Nat /\ m = (n + 1) - (i + 1)
    BY DEF m
  <2> HIDE DEF From
  <2> QED
    BY <2>5, <2>6
<1> HIDE DEF K
<1>3. 1..(n + 1) \subseteq K
  BY <1>1, <1>2, S!CountUp
<1>4. n + 1 \in 1..(n + 1) /\ (n + 1) - (n + 1) = 0
  OBVIOUS
<1>5. PICK g : From(g, 0)
  BY <1>3, <1>4 DEF K
<1>6. \A q \in Nat : q >= 0
  OBVIOUS
<1>7. \A q \in Nat : Right(g, q)
  BY <1>5, <1>6
<1>8. Coming(g, next)
  BY <1>5, <1>7 DEF Coming
<1> QED
  BY <1>8

\* One element before those that follow it.
LEMMA OneBefore ==
  ASSUME NEW o, NEW k \in Nat, NEW j \in Nat, o[k] \in Nat, \A i \in 1..j : o[k + i] \in Nat
  PROVE  <<o[k]>> \o [i \in 1..j |-> o[k + i]] = [i \in 1..(j + 1) |-> o[(k - 1) + i]]
<1> DEFINE r == [i \in 1..j |-> o[k + i]]
           a == <<o[k]>>
           l == Len(a)
           m == Len(r)
           c == a \o r
<1>1. r \in Seq(Nat) /\ m = j /\ \A i \in 1..j : r[i] = o[k + i]
  OBVIOUS
<1>2. a \in Seq(Nat) /\ l = 1 /\ a[1] = o[k]
  OBVIOUS
<1> HIDE DEF a, r
<1>3. /\ c \in Seq(Nat) /\ Len(c) = l + m
      /\ \A i \in 1..(l + m) : c[i] = IF i <= l THEN a[i] ELSE r[i - l]
  BY <1>1, <1>2, ConcatProperties
<1> HIDE DEF c, l, m
<1>4. /\ c = [i \in 1..(j + 1) |-> c[i]]
      /\ \A i \in 1..(j + 1) : c[i] = IF i <= 1 THEN a[i] ELSE r[i - 1]
  <2>1. l + m = j + 1
    BY <1>1, <1>2
  <2> QED
    BY <1>2, <1>3, <2>1
<1>5. ASSUME NEW i \in 1..(j + 1) PROVE c[i] = o[(k - 1) + i]
  <2>1. CASE i = 1
    BY <1>2, <1>4, <2>1
  <2>2. CASE i # 1
    <3>1. i - 1 \in 1..j /\ ~(i <= 1) /\ k + (i - 1) = (k - 1) + i
      BY <2>2
    <3> QED
      BY <1>1, <1>4, <3>1
  <2> QED
    BY <2>1, <2>2
<1> QED
  BY <1>4, <1>5 DEF c, a, r

\* The places from o[1] are the steps from there.
LEMMA PlacesAre ==
  ASSUME NEW next, NEW n \in Nat, Forward(next, n),
         NEW w \in Nat, w >= 1, NEW o, Steps(next, o, w)
  PROVE  Places(next, o[1]) = [i \in 1..w |-> o[i]]
<1> DEFINE g == CHOOSE g : Coming(g, next)
           q == [i \in 1..w |-> o[i]]
           K == {j \in 1..w : g[o[(w + 1) - j]] = [i \in 1..j |-> o[(w - j) + i]]}
<1>0. /\ \A i \in 1..w : o[i] \in Nat
      /\ \A i \in 1..w : i < w => next[o[i]] = o[i + 1] /\ o[i + 1] # o[i]
      /\ next[o[w]] = o[w]
  BY DEF Steps
<1>1. Places(next, o[1]) = g[o[1]]
  BY DEF Places, Coming
<1>2. Coming(g, next)
  BY ComingExists
<1> HIDE DEF g
<1>3. \A x \in Nat : g[x] = IF next[x] = x THEN <<x>> ELSE <<x>> \o g[next[x]]
  BY <1>2 DEF Coming
<1>4. 1 \in K
  <2>1. (w + 1) - 1 = w /\ (w - 1) + 1 = w /\ 1 \in 1..w /\ w \in 1..w
    OBVIOUS
  <2>2. g[o[w]] = <<o[w]>>
    BY <1>0, <1>3, <2>1
  <2>3. [i \in 1..1 |-> o[(w - 1) + i]] = <<o[w]>>
    <3>1. \A i \in 1..1 : (w - 1) + i = w
      OBVIOUS
    <3> QED
      BY <3>1
  <2> QED
    BY <2>1, <2>2, <2>3
<1>5. ASSUME NEW j \in 1..w, j \in K, j < w PROVE j + 1 \in K
  <2> DEFINE k == w - j
             r == [i \in 1..j |-> o[k + i]]
             s == [i \in 1..(j + 1) |-> o[(k - 1) + i]]
  <2>1. /\ k \in 1..w /\ k < w /\ k + 1 \in 1..w
        /\ (w + 1) - (j + 1) = k /\ (w + 1) - j = k + 1 /\ w - (j + 1) = k - 1 /\ j + 1 \in 1..w
    BY <1>5
  <2>2. g[o[k + 1]] = r
    BY <1>5, <2>1
  <2>3. g[o[k]] = <<o[k]>> \o g[o[k + 1]]
    <3>1. o[k] \in Nat /\ next[o[k]] = o[k + 1] /\ o[k + 1] # o[k]
      BY <1>0, <2>1
    <3>2. g[o[k]] = IF next[o[k]] = o[k] THEN <<o[k]>> ELSE <<o[k]>> \o g[next[o[k]]]
      BY <1>3, <3>1, Zenon
    <3> QED
      BY <3>1, <3>2, Zenon
  <2>4. <<o[k]>> \o r = s
    <3>1. k \in Nat /\ o[k] \in Nat /\ \A i \in 1..j : o[k + i] \in Nat
      <4>1. \A i \in 1..j : k + i \in 1..w
        BY <1>5, <2>1
      <4> QED
        BY <1>0, <2>1, <4>1
    <3> HIDE DEF k
    <3> QED
      BY <3>1, OneBefore
  <2> HIDE DEF k, r, s
  <2> QED
    BY <2>1, <2>2, <2>3, <2>4 DEF s
<1> HIDE DEF K
<1>6. 1..w \subseteq K
  BY <1>4, <1>5, S!CountUp
<1>7. w \in 1..w /\ (w + 1) - w = 1 /\ \A i \in 1..w : (w - w) + i = i
  OBVIOUS
<1>8. g[o[1]] = [i \in 1..w |-> o[(w - w) + i]]
  BY <1>6, <1>7 DEF K
<1> QED
  BY <1>1, <1>7, <1>8

-----------------------------------------------------------------------------
(* Blocks one after the other *)

\* What a file holds it still holds with more behind it, and then that too.
LEMMA BeginsConcat ==
  ASSUME NEW T, NEW q \in Seq(T), NEW c \in Seq(T), NEW b \in Seq(T)
  PROVE  /\ q \o c \in Seq(T)
         /\ Len(q \o c) = Len(q) + Len(c)
         /\ \A p \in Nat : Holds(q, p, b) => Holds(q \o c, p, b)
         /\ \A n \in Nat : Begins(c, 0, b, n) => Begins(q \o c, Len(q), b, n)
<1> DEFINE m == Len(q)
           k == Len(c)
           d == q \o c
           l == Len(b)
<1>1. /\ d \in Seq(T) /\ Len(d) = m + k /\ m \in Nat /\ k \in Nat /\ l \in Nat
      /\ \A i \in 1..(m + k) : d[i] = IF i <= m THEN q[i] ELSE c[i - m]
  BY ConcatProperties
<1> HIDE DEF d, m, k, l
<1>2. ASSUME NEW p \in Nat, Holds(q, p, b) PROVE Holds(d, p, b)
  <2>1. p + l <= m /\ \A i \in 1..l : q[p + i] = b[i]
    BY <1>2 DEF Holds, Begins, m, l
  <2>2. ASSUME NEW i \in 1..l PROVE d[p + i] = b[i]
    <3>1. p + i \in 1..(m + k) /\ p + i <= m
      BY <1>1, <2>1
    <3> QED
      BY <1>1, <2>1, <3>1
  <2>3. p + l <= m + k /\ l <= l
    BY <1>1, <2>1
  <2> QED
    BY <1>1, <2>2, <2>3 DEF Holds, Begins, l
<1>3. ASSUME NEW n \in Nat, Begins(c, 0, b, n) PROVE Begins(d, m, b, n)
  <2>1. 0 + n <= k /\ n <= Len(b) /\ \A i \in 1..n : c[0 + i] = b[i]
    BY <1>3 DEF Begins, k
  <2>2. ASSUME NEW i \in 1..n PROVE d[m + i] = b[i]
    <3>1. m + i \in 1..(m + k) /\ ~(m + i <= m) /\ (m + i) - m = i /\ 0 + i = i
      BY <1>1, <2>1
    <3> QED
      BY <1>1, <2>1, <3>1
  <2>3. m + n <= m + k
    BY <1>1, <2>1
  <2> QED
    BY <1>1, <2>1, <2>2, <2>3 DEF Begins
<1> QED
  BY <1>1, <1>2, <1>3 DEF d, m, k

\* The file q is made of the first w of the blocks b, each at its offset, and of part
\* bytes of the next one.
Layout(q, b, w, part, o) ==
  /\ DOMAIN o = 1..(w + 1)
  /\ o[1] = 0
  /\ \A i \in 1..w : o[i + 1] = o[i] + Len(b[i]) /\ Holds(q, o[i], b[i])
  /\ \A i \in 1..(w + 1) : o[i] \in Nat
  /\ Len(q) = o[w + 1] + part
  /\ part > 0 => Begins(q, o[w + 1], b[w + 1], part)

\* Blocks flattened stand one after the other.
LEMMA FlattenLayout ==
  ASSUME NEW T, NEW w \in Nat, NEW b, Len(b) = w, w = 0 => b = <<>>,
         \A i \in 1..w : b[i] \in Seq(T)
  PROVE  FlattenSeq(b) \in Seq(T) /\ \E o : Layout(FlattenSeq(b), b, w, 0, o)
<1>1. CASE w = 0
  <2> DEFINE o == [i \in 1..1 |-> 0]
  <2>1. FlattenSeq(b) = <<>> /\ <<>> \in Seq(T) /\ Len(<<>>) = 0
    BY <1>1 DEF FlattenSeq
  <2>2. Layout(<<>>, b, 0, 0, o)
    BY DEF Layout
  <2> QED
    BY <1>1, <2>1, <2>2
<1>2. CASE w # 0
  <2> DEFINE f == CHOOSE f : S!Flattening(f, b, w)
             o == [i \in 1..(w + 1) |-> IF i = 1 THEN 0 ELSE Len(f[i - 1])]
             Good(i) == /\ f[i] \in Seq(T)
                        /\ \A j \in 1..i : o[j + 1] = o[j] + Len(b[j]) /\ Holds(f[i], o[j], b[j])
             K == {i \in 1..w : Good(i)}
  <2>1. FlattenSeq(b) = f[w]
    BY <1>2 DEF FlattenSeq, S!Flattening
  <2>2. \A i \in 1..w : f[i] = IF i = 1 THEN b[i] ELSE f[i - 1] \o b[i]
    <3>1. S!Flattening(f, b, w)
      BY S!FlatteningExists
    <3> HIDE DEF f
    <3> QED
      BY <3>1 DEF S!Flattening
  <2> HIDE DEF f
  <2>3. o[1] = 0 /\ DOMAIN o = 1..(w + 1) /\ \A i \in 1..w : o[i + 1] = Len(f[i])
    <3>1. \A i \in 1..w : i + 1 \in 1..(w + 1) /\ i + 1 # 1 /\ (i + 1) - 1 = i
      OBVIOUS
    <3>2. 1 \in 1..(w + 1)
      OBVIOUS
    <3> QED
      BY <3>1, <3>2
  <2> HIDE DEF o
  <2>4. 1 \in K
    <3>1. 1 \in 1..w /\ f[1] = b[1] /\ b[1] \in Seq(T) /\ 1..1 = {1}
      BY <1>2, <2>2
    <3>2. o[1 + 1] = Len(b[1]) /\ Len(b[1]) \in Nat
      BY <2>3, <3>1
    <3>3. Holds(f[1], o[1], b[1])
      <4>1. 0 + Len(b[1]) <= Len(f[1]) /\ Len(b[1]) <= Len(b[1])
            /\ \A k \in 1..Len(b[1]) : f[1][0 + k] = b[1][k]
        BY <3>1, <3>2
      <4> QED
        BY <2>3, <4>1 DEF Holds, Begins
    <3>4. o[1 + 1] = o[1] + Len(b[1])
      BY <2>3, <3>2
    <3> QED
      BY <3>1, <3>3, <3>4
  <2>5. ASSUME NEW i \in 1..w, i \in K, i < w PROVE i + 1 \in K
    <3>1. i + 1 \in 1..w /\ f[i + 1] = f[i] \o b[i + 1] /\ b[i + 1] \in Seq(T)
      <4>1. i + 1 \in 1..w /\ i + 1 # 1 /\ (i + 1) - 1 = i
        BY <2>5
      <4> QED
        BY <2>2, <4>1
    <3>2. Good(i)
      BY <2>5
    <3>3. f[i + 1] \in Seq(T) /\ Len(f[i + 1]) = Len(f[i]) + Len(b[i + 1])
      BY <3>1, <3>2, BeginsConcat
    <3>4. ASSUME NEW j \in 1..i
          PROVE  o[j + 1] = o[j] + Len(b[j]) /\ Holds(f[i + 1], o[j], b[j])
      <4>1. o[j + 1] = o[j] + Len(b[j]) /\ Holds(f[i], o[j], b[j])
        BY <3>2
      <4>2. j \in 1..w /\ b[j] \in Seq(T)
        OBVIOUS
      <4>3. o[j] \in Nat
        <5>1. CASE j = 1
          BY <2>3, <5>1
        <5>2. CASE j # 1
          <6>1. j - 1 \in 1..i /\ (j - 1) + 1 = j /\ j - 1 \in 1..w
            BY <5>2
          <6>2. o[j] = o[j - 1] + Len(b[j - 1]) /\ o[j] = Len(f[j - 1])
            BY <2>3, <3>2, <6>1
          <6> QED
            BY <6>2
        <5> QED
          BY <5>1, <5>2
      <4>4. Holds(f[i] \o b[i + 1], o[j], b[j])
        BY <3>1, <3>2, <4>1, <4>2, <4>3, BeginsConcat
      <4> QED
        BY <3>1, <4>1, <4>4
    <3>5. /\ o[(i + 1) + 1] = o[i + 1] + Len(b[i + 1])
          /\ Holds(f[i + 1], o[i + 1], b[i + 1])
      <4>1. o[(i + 1) + 1] = Len(f[i + 1]) /\ o[i + 1] = Len(f[i])
        BY <2>3, <3>1
      <4>2. Begins(b[i + 1], 0, b[i + 1], Len(b[i + 1]))
        BY <3>1 DEF Begins
      <4>3. Len(b[i + 1]) \in Nat
        BY <3>1
      <4>4. Begins(f[i + 1], Len(f[i]), b[i + 1], Len(b[i + 1]))
        BY <3>1, <3>2, <4>2, <4>3, BeginsConcat
      <4> QED
        BY <3>3, <4>1, <4>4 DEF Holds
    <3>6. \A j \in 1..(i + 1) : j \in 1..i \/ j = i + 1
      OBVIOUS
    <3> QED
      BY <3>1, <3>3, <3>4, <3>5, <3>6
  <2>6. w \in K
    <3> HIDE DEF K
    <3>1. 1..w \subseteq K
      BY <2>4, <2>5, S!CountUp
    <3> QED
      BY <1>2, <3>1
  <2>7. Good(w)
    BY <2>6
  <2>8. \A i \in 1..(w + 1) : o[i] \in Nat
    <3>1. \A i \in 1..w : f[i] \in Seq(T)
      <4> HIDE DEF K
      <4>1. 1..w \subseteq K
        BY <2>4, <2>5, S!CountUp
      <4> QED
        BY <4>1 DEF K
    <3>2. ASSUME NEW i \in 1..(w + 1) PROVE o[i] \in Nat
      <4>1. CASE i = 1
        BY <2>3, <4>1
      <4>2. CASE i # 1
        <5>1. i - 1 \in 1..w /\ (i - 1) + 1 = i
          BY <4>2
        <5>2. o[i] = Len(f[i - 1])
          BY <2>3, <5>1
        <5> QED
          BY <3>1, <5>1, <5>2
      <4> QED
        BY <4>1, <4>2
    <3> QED
      BY <3>2
  <2>9. Len(f[w]) = o[w + 1] + 0
    <3>1. w \in 1..w /\ w + 1 \in 1..(w + 1)
      BY <1>2
    <3>2. Len(f[w]) = o[w + 1]
      BY <2>3, <3>1
    <3>3. o[w + 1] \in Nat
      BY <2>8, <3>1
    <3> QED
      BY <3>2, <3>3
  <2>10. Layout(f[w], b, w, 0, o)
    BY <2>3, <2>7, <2>8, <2>9 DEF Layout
  <2> QED
    BY <2>1, <2>7, <2>10
<1> QED
  BY <1>1, <1>2

\* What is on disk: the first w blocks, and part bytes of the next.
CutAt(b, w, part) ==
  FlattenSeq(SubSeq(b, 1, w)) \o (IF part = 0 THEN <<>> ELSE SubSeq(b[w + 1], 1, part))

\* A file that was cut off is laid out in its blocks and part of the next one.
LEMMA CutLayout ==
  ASSUME NEW T, NEW b, NEW n \in Nat, \A i \in 1..n : b[i] \in Seq(T),
         NEW w \in 0..n, NEW part \in Nat, part = 0 \/ (w < n /\ part < Len(b[w + 1]))
  PROVE  CutAt(b, w, part) \in Seq(T) /\ \E o : Layout(CutAt(b, w, part), b, w, part, o)
<1> DEFINE s == SubSeq(b, 1, w)
           q == FlattenSeq(s)
           tail == IF part = 0 THEN <<>> ELSE SubSeq(b[w + 1], 1, part)
<1>1. Len(s) = w /\ \A i \in 1..w : s[i] = b[i] /\ s[i] \in Seq(T)
  <2>1. \A i \in 1..w : i \in 1..n
    OBVIOUS
  <2>2. \A i \in 1..w : b[i] \in Seq(T)
    BY <2>1
  <2>3. /\ Len(s) = IF 1 <= w THEN w - 1 + 1 ELSE 0
        /\ \A i \in 1..(w - 1 + 1) : s[i] = b[1 + i - 1]
    <3>1. 1 \in Int /\ w \in Int /\ \A i \in 1..w : b[i] \in Seq(T)
      BY <2>2
    <3> QED
      BY <3>1, SubSeqProperties
  <2>4. w - 1 + 1 = w /\ (IF 1 <= w THEN w - 1 + 1 ELSE 0) = w /\ \A i \in 1..w : 1 + i - 1 = i
    OBVIOUS
  <2> HIDE DEF s
  <2> QED
    BY <2>2, <2>3, <2>4
<1>2. w = 0 => s = <<>>
  BY SubSeqEmpty
<1> HIDE DEF s
<1>3. w \in Nat
  OBVIOUS
<1>4. q \in Seq(T) /\ \E o : Layout(q, s, w, 0, o)
  BY <1>1, <1>2, <1>3, FlattenLayout
<1> HIDE DEF q
<1>5. /\ tail \in Seq(T) /\ Len(tail) = part
      /\ part > 0 => b[w + 1] \in Seq(T) /\ Begins(tail, 0, b[w + 1], part)
  <2>1. CASE part = 0
    BY <2>1
  <2>2. CASE part # 0
    <3> DEFINE c == b[w + 1]
    <3>1. c \in Seq(T) /\ part < Len(c) /\ part \in 1..Len(c)
      <4>1. w + 1 \in 1..n /\ part < Len(c)
        BY <2>2
      <4>2. c \in Seq(T)
        BY <4>1
      <4> HIDE DEF c
      <4> QED
        BY <2>2, <4>1, <4>2
    <3>2. tail = SubSeq(c, 1, part)
      BY <2>2
    <3> HIDE DEF c, tail
    <3>3. /\ tail \in Seq(T) /\ Len(tail) = part
          /\ \A i \in 1..part : tail[i] = c[i]
      <4>1. 1 \in Int /\ part \in Int /\ \A i \in 1..part : c[i] \in T
        <5>1. \A i \in 1..part : i \in 1..Len(c)
          BY <3>1
        <5> QED
          BY <3>1, <5>1, ElementOfSeq
      <4>2. /\ tail \in Seq(T)
            /\ Len(tail) = IF 1 <= part THEN part - 1 + 1 ELSE 0
            /\ \A i \in 1..(part - 1 + 1) : tail[i] = c[1 + i - 1]
        BY <3>2, <4>1, SubSeqProperties
      <4>3. part - 1 + 1 = part /\ (IF 1 <= part THEN part - 1 + 1 ELSE 0) = part
            /\ \A i \in 1..part : 1 + i - 1 = i
        BY <2>2
      <4> QED
        BY <4>2, <4>3
    <3>4. Begins(tail, 0, c, part)
      <4>1. 0 + part <= Len(tail) /\ part <= Len(c) /\ \A k \in 1..part : tail[0 + k] = c[k]
        BY <3>1, <3>3
      <4> QED
        BY <4>1 DEF Begins
    <3> QED
      BY <3>1, <3>3, <3>4 DEF c
  <2> QED
    BY <2>1, <2>2
<1> HIDE DEF tail
<1> DEFINE r == q \o tail
<1>6. r \in Seq(T) /\ Len(r) = Len(q) + part
  BY <1>4, <1>5, BeginsConcat
<1>7. PICK o : Layout(q, s, w, 0, o)
  BY <1>4
<1>8. Len(q) = o[w + 1] /\ o[w + 1] \in Nat
  <2>1. Len(q) = o[w + 1] + 0 /\ o[w + 1] \in Nat
    BY <1>7 DEF Layout
  <2> QED
    BY <2>1
<1>9. ASSUME NEW i \in 1..w PROVE o[i + 1] = o[i] + Len(b[i]) /\ Holds(r, o[i], b[i])
  <2>1. s[i] = b[i] /\ b[i] \in Seq(T) /\ i \in 1..(w + 1)
    BY <1>1
  <2>2. o[i + 1] = o[i] + Len(b[i]) /\ Holds(q, o[i], b[i]) /\ o[i] \in Nat
    BY <1>7, <2>1 DEF Layout
  <2> QED
    BY <1>4, <1>5, <2>1, <2>2, BeginsConcat
<1>10. part > 0 => Begins(r, o[w + 1], b[w + 1], part)
  BY <1>4, <1>5, <1>8, BeginsConcat
<1>11. Layout(r, b, w, part, o)
  <2> HIDE DEF r
  <2>1. DOMAIN o = 1..(w + 1) /\ o[1] = 0 /\ \A i \in 1..(w + 1) : o[i] \in Nat
    BY <1>7 DEF Layout
  <2> QED
    BY <1>6, <1>8, <1>9, <1>10, <2>1 DEF Layout
<1>12. CutAt(b, w, part) = r
  BY DEF CutAt, r, q, s, tail
<1> QED
  BY <1>6, <1>11, <1>12

-----------------------------------------------------------------------------
(* Records of pcap and lbn: sixteen bytes, of which two numbers count, and the data *)

RecordHeader(length, origin, order) == Zeros(8) \o Number(length, order) \o Number(origin, order)

\* As many zeros as asked for.
LEMMA ZerosType ==
  ASSUME NEW n \in Nat
  PROVE  Zeros(n) \in Seq(Byte) /\ Len(Zeros(n)) = n
<1>1. 0 \in Byte
  BY DEF Byte
<1> HIDE DEF Byte
<1> QED
  BY <1>1 DEF Zeros

\* A header is sixteen bytes, and tells the two lengths ...
LEMMA RecordHeaderRead ==
  ASSUME NEW length \in Word32, NEW origin \in Word32, NEW order \in Orders
  PROVE  /\ RecordHeader(length, origin, order) \in Seq(Byte)
         /\ Len(RecordHeader(length, origin, order)) = 16
         /\ \A q \in Seq(Byte), p \in Nat :
              Holds(q, p, RecordHeader(length, origin, order)) =>
                /\ p + 16 <= Len(q)
                /\ Word(q, p + 8, order) = length
                /\ Word(q, p + 12, order) = origin
<1> DEFINE z == Zeros(8)
           a == Number(length, order)
           b == Number(origin, order)
           za == z \o a
           h == za \o b
<1>1. z \in Seq(Byte) /\ Len(z) = 8 /\ a \in Seq(Byte) /\ Len(a) = 4 /\ b \in Seq(Byte) /\ Len(b) = 4
  BY NumberBytes, ZerosType
<1> HIDE DEF z, a, b
<1>2. za \in Seq(Byte) /\ Len(za) = 12
  <2>1. za \in Seq(Byte) /\ Len(za) = Len(z) + Len(a)
    BY <1>1, ConcatProperties
  <2> QED
    BY <1>1, <2>1
<1>3. h \in Seq(Byte) /\ Len(h) = 16
  <2>1. h \in Seq(Byte) /\ Len(h) = Len(za) + Len(b)
    BY <1>1, <1>2, ConcatProperties
  <2> QED
    BY <1>1, <1>2, <2>1
<1>4. ASSUME NEW q \in Seq(Byte), NEW p \in Nat, Holds(q, p, h)
      PROVE  p + 16 <= Len(q) /\ Word(q, p + 8, order) = length /\ Word(q, p + 12, order) = origin
  <2>1. Holds(q, p, za) /\ Holds(q, p + Len(za), b)
    <3> HIDE DEF za
    <3> QED
      BY <1>1, <1>2, <1>4, HoldsParts
  <2>2. Holds(q, p + Len(z), a)
    BY <1>1, <2>1, HoldsParts
  <2> HIDE DEF za
  <2>3. p + 16 <= Len(q)
    <3> HIDE DEF h
    <3> QED
      BY <1>3, <1>4 DEF Holds, Begins
  <2>4. Holds(q, p + 8, a) /\ Holds(q, p + 12, b) /\ p + 8 \in Nat /\ p + 12 \in Nat
    BY <1>1, <1>2, <2>1, <2>2
  <2> QED
    BY <2>3, <2>4, HoldsNumber DEF a, b
<1>5. RecordHeader(length, origin, order) = h
  BY DEF RecordHeader, h, za, z, a, b
<1> HIDE DEF h, za
<1> QED
  BY <1>3, <1>4, <1>5

\* ... wherever it stands.
LEMMA RecordHolds ==
  ASSUME NEW length \in Word32, NEW origin \in Word32, NEW order \in Orders,
         NEW q \in Seq(Byte), NEW p \in Nat, Holds(q, p, RecordHeader(length, origin, order))
  PROVE  /\ p + 16 <= Len(q)
         /\ Word(q, p + 8, order) = length
         /\ Word(q, p + 12, order) = origin
BY RecordHeaderRead

\* The blocks of a file of n records behind a header of 24 bytes, and a file of them that
\* was cut behind the header.
Records(b, n, data, origin, order) ==
  /\ b[1] \in Seq(Byte) /\ Len(b[1]) = 24
  /\ \A i \in 1..n : /\ data[i] \in Seq(Byte) /\ Len(data[i]) \in Word32 /\ origin[i] \in Word32
                     /\ b[i + 1] = RecordHeader(Len(data[i]), origin[i], order) \o data[i]
CutOff(b, n, w, part) ==
  /\ w \in 1..n /\ part \in Nat
  /\ part = 0 \/ (w < n /\ part < Len(b[w + 1]))

\* What a reader finds of them.
Found(q, w, o, data, origin, order) ==
  /\ o[2] = 24
  /\ \A i \in 1..(w - 1) :
       /\ o[i + 1] + 16 <= Len(q)
       /\ Word(q, o[i + 1] + 8, order) = Len(data[i])
       /\ Word(q, o[i + 1] + 12, order) = origin[i]
       /\ Len(data[i]) <= Len(q) - (o[i + 1] + 16)
       /\ o[i + 2] = o[i + 1] + 16 + Len(data[i])
       /\ Bytes(q, o[i + 1] + 16, Len(data[i])) = data[i]
  /\ ~(/\ o[w + 1] + 16 <= Len(q)
       /\ Word(q, o[w + 1] + 8, order) <= Len(q) - (o[w + 1] + 16))

\* A file of records holds each whole one behind the other, and the last place is where no
\* whole record is.
LEMMA RecordsRead ==
  ASSUME NEW order \in Orders, NEW n \in Nat, NEW b, NEW data, NEW origin,
         Records(b, n, data, origin, order), NEW w, NEW part, CutOff(b, n + 1, w, part),
         NEW q \in Seq(Byte), NEW o, Layout(q, b, w, part, o)
  PROVE  Found(q, w, o, data, origin, order)
<1> USE DEF Records
<1>0. /\ w \in 1..(n + 1) /\ part \in Nat
      /\ part = 0 \/ (w < n + 1 /\ part < Len(b[w + 1]))
  BY DEF CutOff
<1>1. /\ o[1] = 0
      /\ \A i \in 1..w : o[i + 1] = o[i] + Len(b[i]) /\ Holds(q, o[i], b[i])
      /\ \A i \in 1..(w + 1) : o[i] \in Nat
      /\ Len(q) = o[w + 1] + part
      /\ part > 0 => Begins(q, o[w + 1], b[w + 1], part)
  BY DEF Layout
<1>2. o[2] = 24
  <2>1. 1 \in 1..w /\ 1 + 1 = 2 /\ 0 + 24 = 24
    BY <1>0
  <2>2. o[1 + 1] = o[1] + Len(b[1])
    BY <1>1, <2>1
  <2> QED
    BY <1>1, <2>1, <2>2
<1>3. ASSUME NEW i \in 1..n
      PROVE  /\ data[i] \in Seq(Byte) /\ Len(data[i]) \in Word32 /\ origin[i] \in Word32
             /\ b[i + 1] = RecordHeader(Len(data[i]), origin[i], order) \o data[i]
             /\ RecordHeader(Len(data[i]), origin[i], order) \in Seq(Byte)
             /\ Len(RecordHeader(Len(data[i]), origin[i], order)) = 16
             /\ Len(b[i + 1]) = 16 + Len(data[i])
             /\ Len(data[i]) \in Nat
  <2> DEFINE h == RecordHeader(Len(data[i]), origin[i], order)
             d == data[i]
  <2>1. d \in Seq(Byte) /\ Len(d) \in Word32 /\ origin[i] \in Word32 /\ b[i + 1] = h \o d
    OBVIOUS
  <2>2. h \in Seq(Byte) /\ Len(h) = 16
    BY <2>1, RecordHeaderRead
  <2> HIDE DEF h, d
  <2>3. Len(b[i + 1]) = Len(h) + Len(d) /\ Len(d) \in Nat
    <3>1. Len(h \o d) = Len(h) + Len(d)
      BY <2>1, <2>2, ConcatProperties
    <3>2. Len(d) \in Nat
      BY <2>1
    <3> QED
      BY <2>1, <3>1, <3>2
  <2>4. Len(b[i + 1]) = 16 + Len(d)
    BY <2>2, <2>3
  <2> QED
    BY <2>1, <2>2, <2>3, <2>4 DEF h, d
<1>4. ASSUME NEW i \in 1..(w - 1)
      PROVE  /\ o[i + 1] + 16 <= Len(q)
             /\ Word(q, o[i + 1] + 8, order) = Len(data[i])
             /\ Word(q, o[i + 1] + 12, order) = origin[i]
             /\ Len(data[i]) <= Len(q) - (o[i + 1] + 16)
             /\ o[i + 2] = o[i + 1] + 16 + Len(data[i])
             /\ Bytes(q, o[i + 1] + 16, Len(data[i])) = data[i]
  <2> DEFINE h == RecordHeader(Len(data[i]), origin[i], order)
             d == data[i]
             p == o[i + 1]
             m == Len(d)
  <2>1. i \in 1..n /\ i + 1 \in 1..w /\ i + 1 \in 1..(w + 1) /\ (i + 1) + 1 = i + 2
    BY <1>0
  <2>2. /\ d \in Seq(Byte) /\ m \in Word32 /\ origin[i] \in Word32 /\ b[i + 1] = h \o d
        /\ h \in Seq(Byte) /\ Len(h) = 16 /\ Len(b[i + 1]) = 16 + m /\ m \in Nat
    BY <1>3, <2>1
  <2>3. p \in Nat /\ o[i + 2] = p + Len(b[i + 1]) /\ Holds(q, p, b[i + 1])
    BY <1>1, <2>1
  <2>4. Holds(q, p, h) /\ Holds(q, p + 16, d)
    <3> HIDE DEF h, d, p, m
    <3>1. Holds(q, p, h \o d)
      BY <2>2, <2>3
    <3>2. Holds(q, p, h) /\ Holds(q, p + Len(h), d)
      BY <2>2, <2>3, <3>1, HoldsParts
    <3> QED
      BY <2>2, <3>2
  <2>5. p + 16 <= Len(q) /\ Word(q, p + 8, order) = m /\ Word(q, p + 12, order) = origin[i]
    <3> HIDE DEF p, d, m
    <3>1. Holds(q, p, RecordHeader(m, origin[i], order))
      BY <2>4 DEF h, d, m
    <3>2. m \in Word32 /\ origin[i] \in Word32 /\ p \in Nat
      BY <2>2, <2>3
    <3> HIDE DEF h
    <3>3. Word(q, p + 8, order) = m
      BY <3>1, <3>2, RecordHolds
    <3>4. Word(q, p + 12, order) = origin[i]
      BY <3>1, <3>2, RecordHolds
    <3>5. p + 16 <= Len(q)
      BY <3>1, <3>2, RecordHolds
    <3> QED
      BY <3>3, <3>4, <3>5
  <2> HIDE DEF p, d, h
  <2>6. p + 16 \in Nat /\ (p + 16) + m <= Len(q)
    <3>1. (p + 16) + Len(d) <= Len(q)
      BY <2>4 DEF Holds, Begins
    <3> HIDE DEF m
    <3>2. p + 16 \in Nat
      BY <2>3
    <3> QED
      BY <3>1, <3>2 DEF m
  <2>7. Bytes(q, p + 16, m) = d
    BY <2>2, <2>4, <2>6, HoldsBytes
  <2>8. m <= Len(q) - (p + 16) /\ o[i + 2] = p + 16 + m
    <3> HIDE DEF m
    <3>1. Len(q) \in Nat
      OBVIOUS
    <3>2. o[i + 2] = p + (16 + m)
      BY <2>2, <2>3
    <3> QED
      BY <2>2, <2>3, <2>6, <3>1, <3>2
  <2> QED
    BY <2>5, <2>7, <2>8 DEF p, d, m
<1>5. ASSUME o[w + 1] + 16 <= Len(q), Word(q, o[w + 1] + 8, order) <= Len(q) - (o[w + 1] + 16)
      PROVE  FALSE
  <2> DEFINE p == o[w + 1]
  <2>1. p \in Nat /\ Len(q) = p + part
    <3>1. w + 1 \in 1..(w + 1)
      BY <1>0
    <3> QED
      BY <1>1, <3>1
  <2> HIDE DEF p
  <2>2. part >= 16
    BY <1>0, <1>5, <2>1 DEF p
  <2>3. w \in 1..n /\ part < Len(b[w + 1])
    BY <1>0, <2>2
  <2> DEFINE h == RecordHeader(Len(data[w]), origin[w], order)
             d == data[w]
             m == Len(d)
  <2>4. /\ d \in Seq(Byte) /\ m \in Word32 /\ origin[w] \in Word32 /\ b[w + 1] = h \o d
        /\ h \in Seq(Byte) /\ Len(h) = 16 /\ Len(b[w + 1]) = 16 + m /\ m \in Nat
    BY <1>3, <2>3
  <2>5. Holds(q, p, h)
    <3>1. Begins(q, p, b[w + 1], part)
      BY <1>0, <1>1, <2>2 DEF p
    <3> HIDE DEF h, d, m
    <3>2. Begins(q, p, h \o d, part)
      BY <2>4, <3>1
    <3> QED
      BY <1>0, <2>1, <2>2, <2>4, <3>2, BeginsPart
  <2>6. Word(q, p + 8, order) = m
    BY <2>1, <2>4, <2>5, RecordHolds DEF h
  <2> HIDE DEF h, d, m
  <2>7. m <= Len(q) - (p + 16) /\ part < 16 + m
    BY <1>5, <2>3, <2>4, <2>6 DEF p
  <2> QED
    BY <1>0, <2>1, <2>4, <2>7
<1> QED
  BY <1>2, <1>4, <1>5 DEF Found

\* A sequence of one element and those behind it.
LEMMA FirstAndRest ==
  ASSUME NEW T, NEW h \in T, NEW r \in Seq(T)
  PROVE  /\ Len(<<h>> \o r) = Len(r) + 1
         /\ (<<h>> \o r)[1] = h
         /\ \A i \in 1..Len(r) : (<<h>> \o r)[i + 1] = r[i]
<1> DEFINE a == <<h>>
           c == a \o r
           l == Len(a)
           m == Len(r)
<1>1. a \in Seq(T) /\ l = 1 /\ a[1] = h /\ m \in Nat
  OBVIOUS
<1> HIDE DEF a
<1>2. /\ Len(c) = l + m
      /\ \A i \in 1..(l + m) : c[i] = IF i <= l THEN a[i] ELSE r[i - l]
  BY <1>1, ConcatProperties
<1> HIDE DEF c, l, m
<1>3. 1 \in 1..(1 + m) /\ \A i \in 1..m : i + 1 \in 1..(1 + m) /\ ~(i + 1 <= 1) /\ (i + 1) - 1 = i
  BY <1>1
<1>4. Len(c) = m + 1 /\ c[1] = h /\ \A i \in 1..m : c[i + 1] = r[i]
  BY <1>1, <1>2, <1>3
<1> QED
  BY <1>4 DEF c, a, m

-----------------------------------------------------------------------------
(* pcap *)

\* The link types there may be, and what Sniffer captures.
LinkTypes == 1..255
Frames == {f \in Seq(Byte) : Len(f) <= PCAPNG_MAX_PACKET}

\* Blocks are sequences of bytes.
AllBytes(b) == \A i \in 1..Len(b) : b[i] \in Seq(Byte)

\* The length of a frame, and of what is written around it, has 32 bits.
LEMMA FrameLength ==
  ASSUME NEW f \in Frames
  PROVE  f \in Seq(Byte) /\ Len(f) \in Nat /\ \A k \in 0..100 : Len(f) + k \in Word32
<1>1. f \in Seq(Byte) /\ Len(f) <= PCAPNG_MAX_PACKET
  BY SMT DEF Frames
<1> DEFINE m == Len(f)
<1>2. m \in Nat /\ m <= PCAPNG_MAX_PACKET
  BY <1>1, SMT
<1> HIDE DEF m
<1>3. \A k \in 0..100 : m + k \in Word32
  <2>1. PICK t : t = PCAPNG_MAX_PACKET
    OBVIOUS
  <2>2. t \in Nat /\ t \div 65536 < 32768
    BY <2>1, LimitsAssumption
  <2>3. t < 32768 * 65536
    BY <2>2, SMT
  <2>4. m < 32768 * 65536
    BY <1>2, <2>1, <2>2, <2>3, SMT
  <2> QED
    BY <1>2, <2>4, SMT DEF Word32
<1> QED
  BY <1>1, <1>2, <1>3 DEF m

LEMMA FrameWord ==
  ASSUME NEW f \in Frames
  PROVE  f \in Seq(Byte) /\ Len(f) \in Nat /\ Len(f) \in Word32
<1>1. f \in Seq(Byte) /\ Len(f) \in Nat /\ Len(f) + 0 \in Word32
  BY FrameLength
<1> QED
  BY <1>1

\* What a pcap file keeps of frames are as many frames, none of them longer than it was.
Trimmed(ps, cs) ==
  /\ cs \in Seq(Frames) /\ Len(cs) = Len(ps)
  /\ \A i \in 1..Len(ps) : cs[i] = Captured(ps[i])

LEMMA CapturedFrame ==
  ASSUME NEW f \in Frames
  PROVE  Captured(f) \in Frames
<1> DEFINE m == Len(f)
           n == IF m > PCAP_SNAPLEN THEN PCAP_SNAPLEN ELSE m
           c == SubSeq(f, 1, n)
<1>1. f \in Seq(Byte) /\ m \in Nat /\ m <= PCAPNG_MAX_PACKET
  BY FrameLength DEF Frames
<1>2. n \in Nat /\ n <= m
  BY <1>1, LimitsAssumption
<1>3. \A i \in 1..n : f[i] \in Byte
  <2>1. \A i \in 1..n : i \in 1..Len(f)
    BY <1>1, <1>2
  <2> QED
    BY <1>1, <2>1, ElementOfSeq
<1> HIDE DEF n
<1>4. c \in Seq(Byte) /\ Len(c) = (IF 1 <= n THEN n - 1 + 1 ELSE 0)
  BY <1>2, <1>3, SubSeqProperties
<1>5. Len(c) <= PCAPNG_MAX_PACKET
  <2> HIDE DEF c, m
  <2>1. Len(c) = n
    BY <1>2, <1>4
  <2> QED
    BY <1>1, <1>2, <2>1, LimitsAssumption
<1> QED
  BY <1>4, <1>5 DEF Frames, Captured, n, m, c

LEMMA TrimmedHeld ==
  ASSUME NEW ps \in Seq(Frames)
  PROVE  Trimmed(ps, Held("pcap", ps))
<1> DEFINE n == Len(ps)
           cs == [i \in 1..n |-> Captured(ps[i])]
<1>1. n \in Nat /\ DOMAIN ps = 1..n
  OBVIOUS
<1>2. \A i \in 1..n : Captured(ps[i]) \in Frames
  BY CapturedFrame, ElementOfSeq
<1>3. Held("pcap", ps) = cs
  BY <1>1 DEF Held
<1>4. cs \in Seq(Frames) /\ Len(cs) = n /\ \A i \in 1..n : cs[i] = Captured(ps[i])
  BY <1>1, <1>2
<1> QED
  BY <1>3, <1>4 DEF Trimmed

\* So has a link type.
LEMMA LinkNumber ==
  ASSUME NEW link \in LinkTypes
  PROVE  link \in Word32 /\ link \in Byte /\ link # NoLink
BY SMT DEF Word32, LinkTypes, Byte, NoLink

\* Four bytes stay four bytes in either order.
LEMMA FourBytes ==
  ASSUME NEW b1 \in Byte, NEW b2 \in Byte, NEW b3 \in Byte, NEW b4 \in Byte, NEW order
  PROVE  /\ InOrder(<<b1, b2, b3, b4>>, order) \in Seq(Byte)
         /\ Len(InOrder(<<b1, b2, b3, b4>>, order)) = 4
<1>1. Reverse(<<b1, b2, b3, b4>>) = <<b4, b3, b2, b1>>
  BY DEF Reverse
<1>2. <<b1, b2, b3, b4>> \in Seq(Byte) /\ <<b4, b3, b2, b1>> \in Seq(Byte)
  OBVIOUS
<1> QED
  BY <1>1, <1>2 DEF InOrder

\* The blocks of a file, and the headers of its packets.
Headed(b, ps, cs, link, order) ==
  /\ b[1] \in Seq(Byte)
  /\ b[1] = InOrder(PCAP_MAGIC_NSEC, order) \o Zeros(16) \o Number(link, order)
  /\ Len(b[1]) = 24
  /\ \A i \in 1..Len(ps) : b[i + 1] = RecordHeader(Len(cs[i]), Len(ps[i]), order) \o cs[i]

LEMMA PcapShape ==
  ASSUME NEW ps \in Seq(Frames), NEW link \in LinkTypes, NEW order \in Orders,
         NEW cs, Trimmed(ps, cs),
         NEW b, b = PcapBlocks(ps, link, order)
  PROVE  /\ Len(b) = Len(ps) + 1
         /\ AllBytes(b)
         /\ Headed(b, ps, cs, link, order)
<1> DEFINE magic == InOrder(PCAP_MAGIC_NSEC, order)
           z == Zeros(16)
           l == Number(link, order)
           h == magic \o z \o l
           n == Len(ps)
           r == [i \in 1..n |-> RecordHeader(Len(cs[i]), Len(ps[i]), order) \o cs[i]]
<1>1. magic \in Seq(Byte) /\ Len(magic) = 4
  <2>1. 77 \in Byte /\ 60 \in Byte /\ 178 \in Byte /\ 161 \in Byte
    BY DEF Byte
  <2> QED
    BY <2>1, FourBytes DEF PCAP_MAGIC_NSEC
<1>2. z \in Seq(Byte) /\ Len(z) = 16 /\ l \in Seq(Byte) /\ Len(l) = 4
  BY NumberBytes, ZerosType, LinkNumber
<1> HIDE DEF magic, z, l
<1>3. magic \o z \in Seq(Byte) /\ Len(magic \o z) = Len(magic) + Len(z)
  BY <1>1, <1>2, ConcatProperties
<1>4. h \in Seq(Byte) /\ Len(h) = Len(magic \o z) + Len(l)
  BY <1>2, <1>3, ConcatProperties
<1>5. Len(h) = 24
  BY <1>1, <1>2, <1>3, <1>4
<1>6. n \in Nat /\ DOMAIN ps = 1..n
  OBVIOUS
<1>c. cs \in Seq(Frames) /\ Len(cs) = n /\ \A i \in 1..n : cs[i] = Captured(ps[i])
  BY DEF Trimmed
<1>7. ASSUME NEW i \in 1..n
      PROVE  RecordHeader(Len(cs[i]), Len(ps[i]), order) \o cs[i] \in Seq(Byte)
  <2>1. ps[i] \in Frames /\ cs[i] \in Frames
    BY <1>c, ElementOfSeq
  <2>2. Len(ps[i]) \in Word32
    BY <2>1, FrameWord
  <2>3. cs[i] \in Seq(Byte) /\ Len(cs[i]) \in Word32
    BY <2>1, FrameWord
  <2>5. RecordHeader(Len(cs[i]), Len(ps[i]), order) \in Seq(Byte)
    BY <2>2, <2>3, RecordHeaderRead
  <2> QED
    BY <2>3, <2>5, ConcatProperties
<1> HIDE DEF h
<1>8. b = <<h>> \o r
  <2>1. \A i \in 1..n : RecordHeader(Len(cs[i]), Len(ps[i]), order) \o cs[i]
          = Zeros(8) \o Number(Len(Captured(ps[i])), order) \o Number(Len(ps[i]), order)
            \o Captured(ps[i])
    BY <1>c DEF RecordHeader
  <2> QED
    BY <1>6, <2>1 DEF PcapBlocks, h, magic, z, l
<1>9. r \in Seq(Seq(Byte)) /\ Len(r) = n
  BY <1>6, <1>7
<1>10. /\ Len(b) = n + 1
       /\ b[1] = h
       /\ \A i \in 1..n : b[i + 1] = r[i]
  <2> HIDE DEF r, n
  <2> DEFINE c == <<h>> \o r
  <2>1. Len(c) = Len(r) + 1 /\ c[1] = h /\ \A i \in 1..Len(r) : c[i + 1] = r[i]
    BY <1>4, <1>9, FirstAndRest
  <2>2. b = c
    BY <1>8
  <2> HIDE DEF c
  <2> QED
    BY <1>9, <2>1, <2>2
<1>11. ASSUME NEW i \in 1..Len(b) PROVE b[i] \in Seq(Byte)
  <2>1. CASE i = 1
    BY <1>4, <1>10, <2>1
  <2>2. CASE i # 1
    <3>1. i - 1 \in 1..n /\ (i - 1) + 1 = i
      BY <1>6, <1>10, <2>2
    <3>2. b[i] = r[i - 1] /\ r[i - 1] \in Seq(Byte)
      BY <1>7, <1>10, <3>1
    <3> QED
      BY <3>2
  <2> QED
    BY <2>1, <2>2
<1> QED
  BY <1>4, <1>5, <1>10, <1>11 DEF AllBytes, Headed, h, magic, z, l

\* The loop of read_pcap_file goes forward, and stops at the end.
LEMMA PcapForward ==
  ASSUME NEW q \in Seq(Byte), NEW order
  PROVE  Forward(PcapNext(q, order), Len(q))
<1> SUFFICES ASSUME NEW p \in Nat
             PROVE  LET next == PcapNext(q, order)
                    IN  next[p] \in Nat /\ next[p] >= p /\ (p >= Len(q) => next[p] = p)
  BY DEF Forward
<1> DEFINE m == Word(q, p + 8, order)
           e == PcapNext(q, order)[p]
<1>1. e = IF p + 16 <= Len(q) /\ m <= Len(q) - (p + 16) THEN p + 16 + m ELSE p
  BY DEF PcapNext, Fits
<1>2. p + 16 <= Len(q) => m \in Nat
  <2>1. p + 16 <= Len(q) => p + 8 \in Nat /\ (p + 8) + 4 <= Len(q)
    OBVIOUS
  <2> QED
    BY <2>1, WordNumber
<1> HIDE DEF m, e
<1>3. e \in Nat /\ e >= p /\ (p >= Len(q) => e = p)
  <2>1. Len(q) \in Nat
    OBVIOUS
  <2> QED
    BY <1>1, <1>2, <2>1
<1> QED
  BY <1>3 DEF e

\* The packets of a pcap file, cut off anywhere behind its header, are those that are whole.
LEMMA PcapReads ==
  ASSUME NEW ps \in Seq(Frames), NEW link \in LinkTypes, NEW order \in Orders,
         NEW cs, Trimmed(ps, cs),
         NEW b, b = PcapBlocks(ps, link, order),
         NEW w, NEW part, CutOff(b, Len(ps) + 1, w, part),
         NEW q \in Seq(Byte), NEW o, Layout(q, b, w, part, o)
  PROVE  PcapPackets(q, order) = [i \in 1..(w - 1) |-> cs[i]]
<1> DEFINE n == Len(ps)
           next == PcapNext(q, order)
           length == [i \in 1..n |-> Len(ps[i])]
<1>1. n \in Nat /\ \A i \in 1..n : ps[i] \in Frames /\ cs[i] \in Frames
  BY ElementOfSeq DEF Trimmed
<1>2. \A i \in 1..n : /\ cs[i] \in Seq(Byte) /\ Len(cs[i]) \in Word32 /\ length[i] \in Word32
                      /\ length[i] = Len(ps[i]) /\ Len(cs[i]) \in Nat
  <2> SUFFICES ASSUME NEW i \in 1..n
               PROVE  /\ cs[i] \in Seq(Byte) /\ Len(cs[i]) \in Word32 /\ Len(cs[i]) \in Nat
                      /\ Len(ps[i]) \in Word32
    OBVIOUS
  <2>1. ps[i] \in Frames /\ cs[i] \in Frames
    BY <1>1
  <2>2. Len(ps[i]) \in Word32
    BY <2>1, FrameWord
  <2>3. cs[i] \in Seq(Byte) /\ Len(cs[i]) \in Nat /\ Len(cs[i]) \in Word32
    BY <2>1, FrameWord
  <2> QED
    BY <2>2, <2>3
<1>3. Records(b, n, cs, length, order)
  <2>0. Headed(b, ps, cs, link, order)
    BY PcapShape
  <2>1. b[1] \in Seq(Byte) /\ Len(b[1]) = 24
    BY <2>0 DEF Headed
  <2>3. \A i \in 1..n : b[i + 1] = RecordHeader(Len(cs[i]), Len(ps[i]), order) \o cs[i]
    BY <2>0 DEF Headed
  <2> HIDE DEF length
  <2>4. \A i \in 1..n : b[i + 1] = RecordHeader(Len(cs[i]), length[i], order) \o cs[i]
    BY <1>2, <2>3
  <2> QED
    BY <1>2, <2>1, <2>4 DEF Records
<1> HIDE DEF length
<1>4. Found(q, w, o, cs, length, order)
  <2> HIDE DEF n
  <2>1. CutOff(b, n + 1, w, part)
    BY DEF n
  <2> QED
    BY <1>1, <1>3, <2>1, RecordsRead
<1>w. w \in 1..(n + 1)
  BY DEF CutOff
<1>5. \A i \in 1..(w + 1) : o[i] \in Nat
  BY DEF Layout
<1> DEFINE oo == [i \in 1..w |-> o[i + 1]]
           places == Places(next, 24)
<1>6. places = [i \in 1..w |-> oo[i]]
  <2>1. Forward(next, Len(q))
    BY PcapForward
  <2>2. \A i \in 1..w : oo[i] = o[i + 1] /\ oo[i] \in Nat
    BY <1>w, <1>5
  <2>3. ASSUME NEW i \in 1..w, i < w PROVE next[oo[i]] = oo[i + 1] /\ oo[i + 1] # oo[i]
    <3>1. i \in 1..(w - 1) /\ i + 1 \in 1..w /\ (i + 1) + 1 = i + 2 /\ i \in 1..n
      BY <1>1, <1>w, <2>3
    <3>2. oo[i] = o[i + 1] /\ oo[i + 1] = o[i + 2] /\ o[i + 1] \in Nat
      BY <2>2, <3>1
    <3>3. next[o[i + 1]] = o[i + 1] + 16 + Len(cs[i])
      BY <1>4, <3>1, <3>2 DEF Found, PcapNext, Fits
    <3>4. Len(cs[i]) \in Nat
      BY <1>2, <3>1
    <3>5. o[i + 2] = o[i + 1] + 16 + Len(cs[i])
      BY <1>4, <3>1 DEF Found
    <3> HIDE DEF next, oo
    <3> QED
      BY <3>2, <3>3, <3>4, <3>5
  <2>4. next[oo[w]] = oo[w]
    <3>1. w \in 1..w /\ oo[w] = o[w + 1] /\ o[w + 1] \in Nat
      BY <1>w, <2>2
    <3>2. next[o[w + 1]] = o[w + 1]
      BY <1>4, <3>1 DEF Found, PcapNext, Fits
    <3> QED
      BY <3>1, <3>2
  <2>5. oo[1] = 24
    BY <1>4, <1>w DEF Found
  <2>6. w \in Nat /\ w >= 1 /\ Len(q) \in Nat
    BY <1>w
  <2> HIDE DEF next, oo
  <2>7. Places(next, oo[1]) = [i \in 1..w |-> oo[i]]
    <3>1. Steps(next, oo, w)
      BY <2>2, <2>3, <2>4 DEF Steps
    <3> QED
      BY <2>1, <2>6, <3>1, PlacesAre
  <2> QED
    BY <2>5, <2>7
<1>7. Len(places) = w /\ \A i \in 1..w : places[i] = o[i + 1]
  <2>1. w \in Nat
    BY <1>w
  <2> HIDE DEF places
  <2> QED
    BY <1>6, <2>1
<1>8. PcapPackets(q, order) =
        [i \in 1..(w - 1) |-> Bytes(q, places[i] + 16, Word(q, places[i] + 8, order))]
  BY <1>7 DEF PcapPackets
<1> HIDE DEF places
<1>9. ASSUME NEW i \in 1..(w - 1)
      PROVE  Bytes(q, places[i] + 16, Word(q, places[i] + 8, order)) = cs[i]
  <2>1. places[i] = o[i + 1]
    BY <1>7, <1>w
  <2> QED
    BY <1>4, <2>1 DEF Found
<1> QED
  BY <1>8, <1>9

\* A file without a whole header is read as nothing.
LEMMA ShortFile ==
  ASSUME NEW q, Len(q) < 24, Len(q) \in Nat
  PROVE  Read(q) = Nothing
<1>1. read_pcap_file(q) = Nothing /\ lbn_load(q) = Nothing
  BY DEF read_pcap_file, lbn_load
<1>2. PcapngRead(q) = Nothing
  <2>1. Len(q) < 28
    OBVIOUS
  <2> QED
    BY <2>1 DEF PcapngRead
<1> QED
  BY <1>1, <1>2 DEF Read

\* The magic numbers differ in their first bytes.
LEMMA Magics ==
  /\ PCAP_MAGIC_NSEC = <<77, 60, 178, 161>> /\ Reverse(PCAP_MAGIC_NSEC) = <<161, 178, 60, 77>>
  /\ PCAP_MAGIC_USEC = <<212, 195, 178, 161>> /\ Reverse(PCAP_MAGIC_USEC) = <<161, 178, 195, 212>>
  /\ BYTE_ORDER_MAGIC = <<77, 60, 43, 26>> /\ Reverse(BYTE_ORDER_MAGIC) = <<26, 43, 60, 77>>
  /\ BLOCK_TYPE_SHB = <<10, 13, 13, 10>> /\ LBN_MAGIC = <<76, 66, 78, 1>>
<1>1. \A i, j, k, l : Reverse(<<i, j, k, l>>) = <<l, k, j, i>>
  BY DEF Reverse
<1>2. Reverse(<<77, 60, 178, 161>>) = <<161, 178, 60, 77>>
  BY <1>1
<1>3. Reverse(<<212, 195, 178, 161>>) = <<161, 178, 195, 212>>
  BY <1>1
<1>4. Reverse(<<77, 60, 43, 26>>) = <<26, 43, 60, 77>>
  BY <1>1
<1> QED
  BY <1>2, <1>3, <1>4 DEF PCAP_MAGIC_NSEC, PCAP_MAGIC_USEC, BYTE_ORDER_MAGIC, BLOCK_TYPE_SHB, LBN_MAGIC

\* A reader that is told one order or the other by the magic number is told right.
LEMMA PcapOrder ==
  ASSUME NEW order \in Orders, NEW magic, magic = InOrder(PCAP_MAGIC_NSEC, order)
  PROVE  LET known == {PCAP_MAGIC_NSEC, PCAP_MAGIC_USEC}
         IN  /\ magic \in known \cup {Reverse(m) : m \in known}
             /\ (IF magic \in known THEN "little" ELSE "big") = order
             /\ magic # LBN_MAGIC /\ magic # BLOCK_TYPE_SHB
<1>1. CASE order = "little"
  <2>1. magic = PCAP_MAGIC_NSEC
    BY <1>1 DEF InOrder
  <2>2. magic # LBN_MAGIC /\ magic # BLOCK_TYPE_SHB
    BY <2>1, Magics, SMT
  <2> QED
    BY <1>1, <2>1, <2>2
<1>2. CASE order = "big"
  <2>1. magic = Reverse(PCAP_MAGIC_NSEC)
    BY <1>2 DEF InOrder
  <2>2. magic # LBN_MAGIC /\ magic # BLOCK_TYPE_SHB /\ magic # PCAP_MAGIC_NSEC /\ magic # PCAP_MAGIC_USEC
    BY <2>1, Magics, SMT
  <2> QED
    BY <1>2, <2>1, <2>2
<1> QED
  BY <1>1, <1>2 DEF Orders

\* What is read of a file that was cut anywhere, and of a whole one.
ReadsOf(q, ps) == \E k \in 0..Len(ps) : Read(q).packets = [i \in 1..k |-> ps[i]]
ReadsWhole(q, ps, link) ==
  /\ Read(q).packets = ps /\ Read(q).ok = TRUE /\ Read(q).link = link

\* A file of which nothing is read.
LEMMA NothingReadsOf ==
  ASSUME NEW q, NEW ps, Len(ps) \in Nat, Read(q) = Nothing
  PROVE  ReadsOf(q, ps)
<1>1. Read(q).packets = <<>>
  BY DEF Nothing
<1>2. [i \in 1..0 |-> ps[i]] = <<>>
  OBVIOUS
<1>3. 0 \in 0..Len(ps)
  OBVIOUS
<1> QED
  BY <1>1, <1>2, <1>3 DEF ReadsOf

\* A file that holds the first blocks of a capture, and part of the next one.
FileOf(q, b, n, w, part) ==
  /\ q \in Seq(Byte)
  /\ w \in 0..n /\ part \in Nat
  /\ part = 0 \/ (w < n /\ part < Len(b[w + 1]))
  /\ \E o : Layout(q, b, w, part, o)

\* A pcap file, cut off anywhere, is read as the packets that are whole, as far as it
\* keeps them.
LEMMA PcapFile ==
  ASSUME NEW ps \in Seq(Frames), NEW link \in LinkTypes, NEW order \in Orders,
         NEW cs, Trimmed(ps, cs),
         NEW b, b = PcapBlocks(ps, link, order), NEW w, NEW part, NEW q,
         FileOf(q, b, Len(ps) + 1, w, part)
  PROVE  /\ ReadsOf(q, cs)
         /\ w = Len(ps) + 1 /\ ps # <<>> => ReadsWhole(q, cs, link) /\ detect_file_type(q) # "pcapng"
<1> DEFINE n == Len(ps)
<1>c. cs \in Seq(Frames) /\ Len(cs) = n
  BY DEF Trimmed
<1>1. PICK o : Layout(q, b, w, part, o)
  BY DEF FileOf
<1>2. /\ q \in Seq(Byte) /\ Len(q) \in Nat /\ w \in 0..(n + 1) /\ part \in Nat /\ n \in Nat
      /\ part = 0 \/ (w < n + 1 /\ part < Len(b[w + 1]))
  BY DEF FileOf
<1>3. /\ b[1] = InOrder(PCAP_MAGIC_NSEC, order) \o Zeros(16) \o Number(link, order)
      /\ Len(b[1]) = 24
  <2>1. Headed(b, ps, cs, link, order)
    BY PcapShape
  <2> QED
    BY <2>1 DEF Headed
<1>4. CASE w = 0
  <2>1. Len(q) = o[0 + 1] + part /\ o[1] = 0
    BY <1>1, <1>4 DEF Layout
  <2>2. part = 0 \/ part < Len(b[0 + 1])
    BY <1>2, <1>4
  <2>3. Len(q) < 24
    BY <1>2, <1>3, <2>1, <2>2
  <2>4. Read(q) = Nothing
    BY <1>2, <2>3, ShortFile
  <2> QED
    BY <1>c, <1>2, <1>4, <2>4, NothingReadsOf
<1>5. CASE w # 0
  <2> DEFINE magic == InOrder(PCAP_MAGIC_NSEC, order)
             z == Zeros(16)
             l == Number(link, order)
  <2>1. CutOff(b, n + 1, w, part)
    BY <1>2, <1>5 DEF CutOff
  <2>2. PcapPackets(q, order) = [i \in 1..(w - 1) |-> cs[i]]
    <3> HIDE DEF n
    <3>1. CutOff(b, Len(ps) + 1, w, part)
      BY <2>1 DEF n
    <3>2. q \in Seq(Byte)
      BY <1>2
    <3> QED
      BY <1>1, <3>1, <3>2, PcapReads
  <2>3. magic \in Seq(Byte) /\ Len(magic) = 4
    <3>1. 77 \in Byte /\ 60 \in Byte /\ 178 \in Byte /\ 161 \in Byte
      BY DEF Byte
    <3> QED
      BY <3>1, FourBytes DEF PCAP_MAGIC_NSEC
  <2>4. z \in Seq(Byte) /\ Len(z) = 16 /\ l \in Seq(Byte) /\ Len(l) = 4
    BY NumberBytes, ZerosType, LinkNumber
  <2> HIDE DEF magic, z, l
  <2>5. magic \o z \in Seq(Byte) /\ Len(magic \o z) = 20
    <3>1. magic \o z \in Seq(Byte) /\ Len(magic \o z) = Len(magic) + Len(z)
      BY <2>3, <2>4, ConcatProperties
    <3> QED
      BY <2>3, <2>4, <3>1
  <2>6. Holds(q, 0, (magic \o z) \o l) /\ Len(q) >= 24
    <3>1. 1 \in 1..w
      BY <1>2, <1>5
    <3>2. Holds(q, 0, b[1])
      BY <1>1, <3>1 DEF Layout
    <3>3. Len(q) >= 24
      BY <1>2, <1>3, <3>2 DEF Holds, Begins
    <3> QED
      BY <1>3, <3>2, <3>3 DEF magic, z, l
  <2>7. Holds(q, 0, magic \o z) /\ Holds(q, 20, l)
    <3> DEFINE mz == magic \o z
    <3>1. mz \in Seq(Byte) /\ Len(mz) = 20 /\ Holds(q, 0, mz \o l)
      BY <2>5, <2>6
    <3> HIDE DEF mz
    <3>2. Holds(q, 0, mz) /\ Holds(q, 0 + Len(mz), l)
      BY <1>2, <2>4, <3>1, HoldsParts
    <3> QED
      BY <3>1, <3>2 DEF mz
  <2>8. Holds(q, 0, magic)
    BY <1>2, <2>3, <2>4, <2>7, HoldsParts
  <2>9. Bytes(q, 0, 4) = magic
    <3>1. Bytes(q, 0, Len(magic)) = magic
      BY <1>2, <2>3, <2>8, HoldsBytes
    <3> QED
      BY <2>3, <3>1
  <2>10. Word(q, 20, order) = link
    BY <1>2, <2>7, HoldsNumber, LinkNumber DEF l
  <2> DEFINE known == {PCAP_MAGIC_NSEC, PCAP_MAGIC_USEC}
  <2>11. /\ magic \in known \cup {Reverse(m) : m \in known}
         /\ (IF magic \in known THEN "little" ELSE "big") = order
         /\ magic # LBN_MAGIC /\ magic # BLOCK_TYPE_SHB
    BY PcapOrder DEF magic
  <2>12. detect_file_type(q) # "lightbin" /\ detect_file_type(q) # "pcapng"
    BY <2>9, <2>11 DEF detect_file_type
  <2>13. Read(q) = read_pcap_file(q)
    BY <2>12 DEF Read
  <2>14. read_pcap_file(q) =
           IF PcapPackets(q, order) = <<>> THEN Nothing
           ELSE [packets |-> PcapPackets(q, order), link |-> link, ok |-> TRUE]
    <3>1. ~(Len(q) < 24)
      BY <1>2, <2>6
    <3> HIDE DEF known
    <3> QED
      BY <2>9, <2>10, <2>11, <3>1, Zenon DEF read_pcap_file, known
  <2>15. w - 1 \in 0..n /\ (w = n + 1 => w - 1 = n)
    BY <1>2, <1>5
  <2>16. ReadsOf(q, cs)
    <3>1. CASE PcapPackets(q, order) = <<>>
      BY <1>c, <1>2, <2>13, <2>14, <3>1, NothingReadsOf
    <3>2. CASE PcapPackets(q, order) # <<>>
      <4>1. Read(q).packets = [i \in 1..(w - 1) |-> cs[i]]
        BY <2>2, <2>13, <2>14, <3>2
      <4> QED
        BY <1>c, <2>15, <4>1 DEF ReadsOf
    <3> QED
      BY <3>1, <3>2
  <2>17. ASSUME w = n + 1, ps # <<>> PROVE ReadsWhole(q, cs, link)
    <3>1. PcapPackets(q, order) = [i \in 1..n |-> cs[i]]
      BY <2>2, <2>15, <2>17
    <3>2. [i \in 1..n |-> cs[i]] = cs
      BY <1>c
    <3>3. PcapPackets(q, order) = cs
      BY <3>1, <3>2
    <3>4. cs # <<>>
      <4>1. n # 0
        BY <2>17, EmptySeq
      <4> QED
        BY <1>c, <4>1
    <3> QED
      BY <2>13, <2>14, <3>3, <3>4 DEF ReadsWhole
  <2> QED
    BY <2>12, <2>16, <2>17
<1> QED
  BY <1>4, <1>5

-----------------------------------------------------------------------------
(* lbn *)

\* The sum that stands for crc32 is defined, and a number.
LEMMA SumExists ==
  ASSUME NEW h \in Seq(Byte), NEW n \in Nat, n <= Len(h)
  PROVE  /\ \E g : g = [i \in 0..n |-> IF i = 0 THEN 0 ELSE g[i - 1] + h[i]]
         /\ \A g : g = [i \in 0..n |-> IF i = 0 THEN 0 ELSE g[i - 1] + h[i]] => g[n] \in Nat
<1> DEFINE Sum(g, k) == /\ g = [i \in 0..k |-> g[i]]
                        /\ \A i \in 0..k : g[i] \in Nat /\ g[i] = IF i = 0 THEN 0 ELSE g[i - 1] + h[i]
           K == {k \in 1..(n + 1) : \E g : Sum(g, k - 1)}
<1>1. 1 \in K
  <2> DEFINE g == [i \in 0..0 |-> 0]
  <2>1. Sum(g, 0)
    OBVIOUS
  <2>2. 1 - 1 = 0 /\ 1 \in 1..(n + 1)
    OBVIOUS
  <2> HIDE DEF Sum
  <2> QED
    BY <2>1, <2>2
<1>2. ASSUME NEW k \in 1..(n + 1), k \in K, k < n + 1 PROVE k + 1 \in K
  <2>1. PICK g : Sum(g, k - 1)
    BY <1>2
  <2>2. k \in 1..Len(h) /\ k \in Nat /\ k - 1 \in 0..(k - 1) /\ k # 0
    BY <1>2
  <2>3. h[k] \in Nat
    <3>1. h[k] \in Byte
      BY <2>2, ElementOfSeq
    <3> QED
      BY <3>1, ByteNumber
  <2> DEFINE f == [i \in 0..k |-> IF i = k THEN g[k - 1] + h[k] ELSE g[i]]
  <2>4. ASSUME NEW i \in 0..k
        PROVE  f[i] \in Nat /\ f[i] = IF i = 0 THEN 0 ELSE f[i - 1] + h[i]
    <3>1. CASE i = k
      <4>1. f[i] = g[k - 1] + h[k] /\ f[k - 1] = g[k - 1] /\ g[k - 1] \in Nat
        <5>1. g[k - 1] \in Nat
          BY <2>1, <2>2
        <5>2. k \in 0..k /\ k - 1 \in 0..k /\ k - 1 # k
          BY <2>2
        <5> QED
          BY <3>1, <5>1, <5>2
      <4> HIDE DEF f
      <4> QED
        BY <2>2, <2>3, <3>1, <4>1
    <3>2. CASE i # k
      <4>1. i \in 0..(k - 1) /\ f[i] = g[i] /\ (i # 0 => i - 1 \in 0..k /\ i - 1 # k /\ f[i - 1] = g[i - 1])
        BY <2>2, <3>2
      <4> HIDE DEF f
      <4> QED
        BY <2>1, <4>1
    <3> QED
      BY <3>1, <3>2
  <2>5. f = [i \in 0..k |-> f[i]]
    OBVIOUS
  <2> HIDE DEF f
  <2>6. Sum(f, k)
    BY <2>4, <2>5
  <2>7. k + 1 \in 1..(n + 1) /\ (k + 1) - 1 = k
    BY <1>2
  <2> HIDE DEF Sum
  <2> QED
    BY <2>6, <2>7
<1>3. PICK g : Sum(g, n)
  <2> HIDE DEF K
  <2>1. 1..(n + 1) \subseteq K
    BY <1>1, <1>2, S!CountUp
  <2>2. n + 1 \in 1..(n + 1) /\ (n + 1) - 1 = n
    OBVIOUS
  <2> HIDE DEF Sum
  <2> QED
    BY <2>1, <2>2 DEF K
<1>4. \E e : e = [i \in 0..n |-> IF i = 0 THEN 0 ELSE e[i - 1] + h[i]]
  BY <1>3
<1>5. ASSUME NEW e, e = [i \in 0..n |-> IF i = 0 THEN 0 ELSE e[i - 1] + h[i]]
      PROVE  e[n] \in Nat
  <2> DEFINE L == {k \in 1..(n + 1) : e[k - 1] \in Nat}
  <2>1. \A i \in 0..n : e[i] = IF i = 0 THEN 0 ELSE e[i - 1] + h[i]
    BY <1>5
  <2>2. 1 \in L
    <3>1. 1 - 1 = 0 /\ 1 \in 1..(n + 1) /\ 0 \in 0..n
      OBVIOUS
    <3>2. e[0] = 0
      BY <2>1, <3>1
    <3> QED
      BY <3>1, <3>2
  <2>3. ASSUME NEW k \in 1..(n + 1), k \in L, k < n + 1 PROVE k + 1 \in L
    <3>1. k \in 0..n /\ k # 0 /\ k \in 1..Len(h) /\ k + 1 \in 1..(n + 1) /\ (k + 1) - 1 = k
      BY <2>3
    <3>2. e[k] = e[k - 1] + h[k] /\ e[k - 1] \in Nat
      BY <2>1, <2>3, <3>1
    <3>3. h[k] \in Byte
      BY <3>1, ElementOfSeq
    <3>4. h[k] \in Nat
      BY <3>3, ByteNumber
    <3> QED
      BY <3>1, <3>2, <3>4
  <2> HIDE DEF L
  <2>4. 1..(n + 1) \subseteq L
    BY <2>2, <2>3, S!CountUp
  <2>5. n + 1 \in 1..(n + 1) /\ (n + 1) - 1 = n
    OBVIOUS
  <2> QED
    BY <2>4, <2>5 DEF L
<1> QED
  BY <1>4, <1>5

\* The checksum is four bytes.
LEMMA Checksum ==
  ASSUME NEW h \in Seq(Byte)
  PROVE  lbn_checksum(h) \in Seq(Byte) /\ Len(lbn_checksum(h)) = 4
<1> DEFINE g == CHOOSE g : g = [i \in 0..Len(h) |-> IF i = 0 THEN 0 ELSE g[i - 1] + h[i]]
           n == crc32(h)
<1>1. n = g[Len(h)]
  BY DEF crc32
<1>2. Len(h) \in Nat /\ Len(h) <= Len(h)
  OBVIOUS
<1>3. g = [i \in 0..Len(h) |-> IF i = 0 THEN 0 ELSE g[i - 1] + h[i]]
  BY <1>2, SumExists
<1> HIDE DEF g, n
<1>4. n \in Nat
  BY <1>1, <1>2, <1>3, SumExists
<1> DEFINE b1 == n % 256
           b2 == (n \div 256) % 256
           b3 == (n \div 65536) % 256
           b4 == (n \div 16777216) % 256
<1>5. b1 \in Byte /\ b2 \in Byte /\ b3 \in Byte /\ b4 \in Byte
  BY <1>4, SMT DEF Byte
<1>6. lbn_checksum(h) = InOrder(<<b1, b2, b3, b4>>, "little")
  BY SMT DEF lbn_checksum, Number, n
<1> HIDE DEF b1, b2, b3, b4
<1> QED
  BY <1>5, <1>6, FourBytes

\* What uncompress makes of what compress2 made is what it was made of.
LEMMA Compression ==
  ASSUME NEW f \in Seq(Byte)
  PROVE  /\ compress2(f) \in Seq(Byte) /\ Len(compress2(f)) = Len(f) + 2
         /\ uncompress(compress2(f)) = f
<1> DEFINE m == Len(f)
           a == <<120>>
           e == <<1>>
           af == a \o f
           c == af \o e
           u == SubSeq(c, 2, Len(c) - 1)
<1>1. a \in Seq(Byte) /\ Len(a) = 1 /\ e \in Seq(Byte) /\ Len(e) = 1 /\ m \in Nat
  <2>1. 120 \in Byte /\ 1 \in Byte
    BY DEF Byte
  <2> QED
    BY <2>1
<1>2. c = compress2(f)
  BY DEF compress2
<1> HIDE DEF a, e
<1>3. /\ af \in Seq(Byte) /\ Len(af) = m + 1
      /\ \A i \in 1..(m + 1) : af[i] = IF i <= 1 THEN a[i] ELSE f[i - 1]
  <2>1. /\ af \in Seq(Byte) /\ Len(af) = Len(a) + Len(f)
        /\ \A i \in 1..(Len(a) + Len(f)) : af[i] = IF i <= Len(a) THEN a[i] ELSE f[i - Len(a)]
    BY <1>1, ConcatProperties
  <2>2. Len(a) + Len(f) = m + 1
    BY <1>1
  <2> HIDE DEF af, m
  <2> QED
    BY <1>1, <2>1, <2>2
<1> HIDE DEF af
<1>4. /\ c \in Seq(Byte) /\ Len(c) = m + 2
      /\ \A i \in 1..(m + 2) : c[i] = IF i <= m + 1 THEN af[i] ELSE e[i - (m + 1)]
  <2>1. /\ c \in Seq(Byte) /\ Len(c) = Len(af) + Len(e)
        /\ \A i \in 1..(Len(af) + Len(e)) : c[i] = IF i <= Len(af) THEN af[i] ELSE e[i - Len(af)]
    BY <1>1, <1>3, ConcatProperties
  <2>2. Len(af) + Len(e) = m + 2
    BY <1>1, <1>3
  <2> HIDE DEF c, m
  <2> QED
    BY <1>1, <1>3, <2>1, <2>2
<1> HIDE DEF c
<1>5. u = f
  <2>1. Len(c) - 1 = m + 1
    BY <1>1, <1>4
  <2>2. /\ u \in Seq(Byte)
        /\ Len(u) = (IF 2 <= m + 1 THEN (m + 1) - 2 + 1 ELSE 0)
        /\ \A i \in 1..((m + 1) - 2 + 1) : u[i] = c[2 + i - 1]
    <3>1. 2 \in Int /\ m + 1 \in Int /\ \A i \in 2..(m + 1) : c[i] \in Byte
      <4>1. \A i \in 2..(m + 1) : i \in 1..Len(c)
        BY <1>1, <1>4
      <4> QED
        BY <1>1, <1>4, <4>1, ElementOfSeq
    <3> DEFINE v == SubSeq(c, 2, m + 1)
    <3>2. /\ v \in Seq(Byte)
          /\ Len(v) = (IF 2 <= m + 1 THEN (m + 1) - 2 + 1 ELSE 0)
          /\ \A i \in 1..((m + 1) - 2 + 1) : v[i] = c[2 + i - 1]
      BY <3>1, SubSeqProperties
    <3>3. u = v
      BY <2>1
    <3> HIDE DEF u, v
    <3> QED
      BY <3>2, <3>3
  <2> HIDE DEF u
  <2>3. (IF 2 <= m + 1 THEN (m + 1) - 2 + 1 ELSE 0) = m /\ (m + 1) - 2 + 1 = m
    BY <1>1
  <2>4. ASSUME NEW i \in 1..m PROVE u[i] = f[i]
    <3>1. 2 + i - 1 = i + 1 /\ i + 1 \in 1..(m + 2) /\ i + 1 <= m + 1 /\ i + 1 \in 1..(m + 1)
          /\ ~(i + 1 <= 1) /\ (i + 1) - 1 = i
      BY <1>1
    <3>2. u[i] = c[i + 1] /\ c[i + 1] = af[i + 1] /\ af[i + 1] = f[i]
      BY <1>3, <1>4, <2>2, <2>3, <3>1
    <3> QED
      BY <3>2
  <2>5. u = [i \in 1..m |-> u[i]] /\ f = [i \in 1..m |-> f[i]]
    BY <2>2, <2>3
  <2> QED
    BY <2>4, <2>5
<1>6. uncompress(compress2(f)) = u
  BY <1>2 DEF uncompress
<1> QED
  BY <1>1, <1>2, <1>4, <1>5, <1>6

\* What an lbn file holds of a packet.
Stored(f, compressed) == IF compressed THEN compress2(f) ELSE f

\* What is stored of a frame has a length of 32 bits, and unpacks to the frame.
LEMMA StoredType ==
  ASSUME NEW f \in Frames, NEW compressed \in BOOLEAN
  PROVE  /\ Stored(f, compressed) \in Seq(Byte)
         /\ Len(Stored(f, compressed)) \in Word32
         /\ Len(f) \in Word32
         /\ compressed => Stored(f, compressed) = compress2(f) /\ uncompress(compress2(f)) = f
         /\ ~compressed => Stored(f, compressed) = f
<1>1. f \in Seq(Byte) /\ Len(f) \in Nat /\ Len(f) + 0 \in Word32 /\ Len(f) + 2 \in Word32
  <2>1. \A k \in 0..100 : Len(f) + k \in Word32
    BY FrameLength
  <2>2. f \in Seq(Byte) /\ Len(f) \in Nat
    BY FrameLength
  <2>3. 0 \in 0..100 /\ 2 \in 0..100
    OBVIOUS
  <2> QED
    BY <2>1, <2>2, <2>3
<1>2. Len(f) \in Word32
  BY <1>1
<1>3. CASE compressed
  BY <1>1, <1>2, <1>3, Compression DEF Stored
<1>4. CASE ~compressed
  BY <1>1, <1>2, <1>4 DEF Stored
<1> QED
  BY <1>3, <1>4

\* The header of lbn is sixteen bytes ...
LEMMA LbnHeaderType ==
  ASSUME NEW count \in Word32, NEW flags \in Word32
  PROVE  /\ LbnHeader(count, flags) \in Seq(Byte) /\ Len(LbnHeader(count, flags)) = 16
         /\ \A q \in Seq(Byte), p \in Nat :
              Holds(q, p, LbnHeader(count, flags)) =>
                Word(q, p + 8, "little") = count /\ Word(q, p + 12, "little") = flags
<1> DEFINE v == Number(1, "little")
           z == Zeros(4)
           c == Number(count, "little")
           f == Number(flags, "little")
           vz == v \o z
           vzc == vz \o c
           h == vzc \o f
<1>1. /\ v \in Seq(Byte) /\ Len(v) = 4 /\ z \in Seq(Byte) /\ Len(z) = 4
      /\ c \in Seq(Byte) /\ Len(c) = 4 /\ f \in Seq(Byte) /\ Len(f) = 4
  <2>1. 1 \in Word32
    BY SMT DEF Word32
  <2>2. "little" \in Orders
    BY DEF Orders
  <2> QED
    BY <2>1, <2>2, NumberBytes, ZerosType
<1> HIDE DEF v, z, c, f
<1>2. vz \in Seq(Byte) /\ Len(vz) = 8
  <2>1. vz \in Seq(Byte) /\ Len(vz) = Len(v) + Len(z)
    BY <1>1, ConcatProperties
  <2> QED
    BY <1>1, <2>1
<1> HIDE DEF vz
<1>3. vzc \in Seq(Byte) /\ Len(vzc) = 12
  <2>1. vzc \in Seq(Byte) /\ Len(vzc) = Len(vz) + Len(c)
    BY <1>1, <1>2, ConcatProperties
  <2> QED
    BY <1>1, <1>2, <2>1
<1>4. h \in Seq(Byte) /\ Len(h) = 16
  <2> HIDE DEF vzc
  <2>1. h \in Seq(Byte) /\ Len(h) = Len(vzc) + Len(f)
    BY <1>1, <1>3, ConcatProperties
  <2> QED
    BY <1>1, <1>3, <2>1
<1>5. ASSUME NEW q \in Seq(Byte), NEW p \in Nat, Holds(q, p, h)
      PROVE  Word(q, p + 8, "little") = count /\ Word(q, p + 12, "little") = flags
  <2>1. Holds(q, p, vzc) /\ Holds(q, p + Len(vzc), f)
    <3> HIDE DEF vzc
    <3> QED
      BY <1>1, <1>3, <1>5, HoldsParts
  <2>2. Holds(q, p + Len(vz), c)
    BY <1>1, <1>2, <2>1, HoldsParts
  <2> HIDE DEF vzc, h
  <2>3. Holds(q, p + 8, c) /\ Holds(q, p + 12, f) /\ p + 8 \in Nat /\ p + 12 \in Nat
    BY <1>2, <1>3, <2>1, <2>2
  <2>4. "little" \in Orders
    BY DEF Orders
  <2> QED
    BY <2>3, <2>4, HoldsNumber DEF c, f
<1>6. LbnHeader(count, flags) = h
  BY DEF LbnHeader, h, vzc, vz, v, z, c, f
<1> HIDE DEF h, vzc
<1> QED
  BY <1>4, <1>5, <1>6

\* ... and tells the count and the flags.
LEMMA LbnHeaderHolds ==
  ASSUME NEW count \in Word32, NEW flags \in Word32, NEW q \in Seq(Byte), NEW p \in Nat,
         Holds(q, p, LbnHeader(count, flags))
  PROVE  Word(q, p + 8, "little") = count /\ Word(q, p + 12, "little") = flags
BY LbnHeaderType

\* The blocks of an lbn file.
LbnShaped(b, ps, compressed, header) ==
  /\ Len(b) = Len(ps) + 1
  /\ AllBytes(b)
  /\ b[1] = LBN_MAGIC \o header \o lbn_checksum(header)
  /\ header \in Seq(Byte) /\ Len(header) = 16
  /\ Len(b[1]) = 24
  /\ Records(b, Len(ps), [i \in 1..Len(ps) |-> Stored(ps[i], compressed)],
             [i \in 1..Len(ps) |-> Len(ps[i])], "little")

LEMMA LbnShape ==
  ASSUME NEW ps \in Seq(Frames), Len(ps) \in Word32, NEW compressed \in BOOLEAN,
         NEW b, b = LbnBlocks(ps, compressed),
         NEW header, header = LbnHeader(Len(ps), IF compressed THEN 1 ELSE 0)
  PROVE  LbnShaped(b, ps, compressed, header)
<1> DEFINE data == [i \in 1..Len(ps) |-> Stored(ps[i], compressed)]
           length == [i \in 1..Len(ps) |-> Len(ps[i])]
           sum == lbn_checksum(header)
           h == LBN_MAGIC \o header \o sum
           n == Len(ps)
           r == [i \in 1..n |-> RecordHeader(Len(data[i]), length[i], "little") \o data[i]]
<1>1. LBN_MAGIC \in Seq(Byte) /\ Len(LBN_MAGIC) = 4
  <2>1. 76 \in Byte /\ 66 \in Byte /\ 78 \in Byte /\ 1 \in Byte
    BY DEF Byte
  <2> QED
    BY <2>1, FourBytes DEF LBN_MAGIC, InOrder
<1>2. header \in Seq(Byte) /\ Len(header) = 16
  <2>1. 0 \in Word32 /\ 1 \in Word32
    BY SMT DEF Word32
  <2>2. (IF compressed THEN 1 ELSE 0) \in Word32
    BY <2>1
  <2> QED
    BY <2>2, LbnHeaderType
<1>3. sum \in Seq(Byte) /\ Len(sum) = 4
  BY <1>2, Checksum
<1> HIDE DEF sum
<1>4. LBN_MAGIC \o header \in Seq(Byte) /\ Len(LBN_MAGIC \o header) = Len(LBN_MAGIC) + Len(header)
  BY <1>1, <1>2, ConcatProperties
<1>5. h \in Seq(Byte) /\ Len(h) = Len(LBN_MAGIC \o header) + Len(sum)
  BY <1>3, <1>4, ConcatProperties
<1> HIDE DEF h
<1>6. Len(h) = 24
  <2> DEFINE mh == LBN_MAGIC \o header
  <2>1. Len(mh) = Len(LBN_MAGIC) + Len(header) /\ Len(h) = Len(mh) + Len(sum)
    BY <1>4, <1>5
  <2> HIDE DEF mh
  <2> QED
    BY <1>1, <1>2, <1>3, <2>1
<1>7. n \in Nat /\ DOMAIN ps = 1..n
  OBVIOUS
<1>8. "little" \in Orders
  BY DEF Orders
<1>9. ASSUME NEW i \in 1..n
      PROVE  /\ data[i] = Stored(ps[i], compressed) /\ length[i] = Len(ps[i])
             /\ data[i] \in Seq(Byte) /\ Len(data[i]) \in Word32 /\ length[i] \in Word32
             /\ RecordHeader(Len(data[i]), length[i], "little") \o data[i] \in Seq(Byte)
  <2>1. ps[i] \in Frames
    BY ElementOfSeq
  <2>2. data[i] = Stored(ps[i], compressed) /\ length[i] = Len(ps[i])
    OBVIOUS
  <2>3. data[i] \in Seq(Byte) /\ Len(data[i]) \in Word32 /\ length[i] \in Word32
    BY <2>1, <2>2, StoredType
  <2>4. RecordHeader(Len(data[i]), length[i], "little") \in Seq(Byte)
    BY <1>8, <2>3, RecordHeaderRead
  <2> QED
    BY <2>2, <2>3, <2>4, ConcatProperties
<1>10. b = <<h>> \o r
  <2> DEFINE entry(p) == LET d == IF compressed THEN compress2(p) ELSE p
                         IN  Zeros(8) \o Number(Len(d), "little") \o Number(Len(p), "little") \o d
  <2>1. b = <<h>> \o [i \in DOMAIN ps |-> entry(ps[i])]
    BY DEF LbnBlocks, h, sum
  <2>2. \A i \in 1..n : entry(ps[i]) = RecordHeader(Len(data[i]), length[i], "little") \o data[i]
    BY <1>9 DEF RecordHeader, Stored
  <2> HIDE DEF entry
  <2> QED
    BY <1>7, <2>1, <2>2
<1>11. r \in Seq(Seq(Byte)) /\ Len(r) = n
  BY <1>7, <1>9
<1>12. /\ Len(b) = n + 1
       /\ b[1] = h
       /\ \A i \in 1..n : b[i + 1] = r[i]
  <2> HIDE DEF r, n
  <2> DEFINE c == <<h>> \o r
  <2>1. Len(c) = Len(r) + 1 /\ c[1] = h /\ \A i \in 1..Len(r) : c[i + 1] = r[i]
    BY <1>5, <1>11, FirstAndRest
  <2>2. b = c
    BY <1>10
  <2> HIDE DEF c
  <2> QED
    BY <1>11, <2>1, <2>2
<1>13. ASSUME NEW i \in 1..Len(b) PROVE b[i] \in Seq(Byte)
  <2>1. CASE i = 1
    BY <1>5, <1>12, <2>1
  <2>2. CASE i # 1
    <3>1. i - 1 \in 1..n /\ (i - 1) + 1 = i
      BY <1>7, <1>12, <2>2
    <3>2. b[i] = r[i - 1] /\ r[i - 1] \in Seq(Byte)
      BY <1>9, <1>12, <3>1
    <3> QED
      BY <3>2
  <2> QED
    BY <2>1, <2>2
<1>14. Records(b, n, data, length, "little")
  <2>1. \A i \in 1..n : b[i + 1] = RecordHeader(Len(data[i]), length[i], "little") \o data[i]
    BY <1>12
  <2> QED
    BY <1>5, <1>6, <1>9, <1>12, <2>1 DEF Records
<1> QED
  BY <1>2, <1>6, <1>12, <1>13, <1>14 DEF LbnShaped, AllBytes, h, sum, data, length, n

\* The loop of lbn_load goes forward, and stops at the end.
LEMMA LbnForward ==
  ASSUME NEW q \in Seq(Byte)
  PROVE  Forward(LbnNext(q), Len(q))
<1> SUFFICES ASSUME NEW p \in Nat
             PROVE  LET next == LbnNext(q)
                    IN  next[p] \in Nat /\ next[p] >= p /\ (p >= Len(q) => next[p] = p)
  BY DEF Forward
<1> DEFINE m == Word(q, p + 8, "little")
           e == LbnNext(q)[p]
           unpacks == LbnCompressed(q) =>
                        Len(uncompress(LbnData(q, p))) = Word(q, p + 12, "little")
<1>1. e = IF p + 16 <= Len(q) /\ m <= Len(q) - (p + 16) /\ unpacks THEN p + 16 + m ELSE p
  BY DEF LbnNext, Fits
<1>2. p + 16 <= Len(q) => m \in Nat
  <2>1. p + 16 <= Len(q) => p + 8 \in Nat /\ (p + 8) + 4 <= Len(q)
    OBVIOUS
  <2> QED
    BY <2>1, WordNumber
<1> HIDE DEF m, e, unpacks
<1>3. e \in Nat /\ e >= p /\ (p >= Len(q) => e = p)
  <2>1. Len(q) \in Nat
    OBVIOUS
  <2> QED
    BY <1>1, <1>2, <2>1
<1> QED
  BY <1>3 DEF e

\* The packets of an lbn file, cut off anywhere behind its header, are those that are whole.
LEMMA LbnReads ==
  ASSUME NEW ps \in Seq(Frames), Len(ps) \in Word32, NEW compressed \in BOOLEAN,
         NEW b, b = LbnBlocks(ps, compressed),
         NEW w, NEW part, CutOff(b, Len(ps) + 1, w, part),
         NEW q \in Seq(Byte), NEW o, Layout(q, b, w, part, o),
         Word(q, 12, "little") = Len(ps), LbnCompressed(q) <=> compressed
  PROVE  LbnPackets(q) = [i \in 1..(w - 1) |-> ps[i]]
<1> DEFINE n == Len(ps)
           next == LbnNext(q)
           data == [i \in 1..n |-> Stored(ps[i], compressed)]
           length == [i \in 1..n |-> Len(ps[i])]
<1>1. n \in Nat /\ \A i \in 1..n : ps[i] \in Frames
  BY ElementOfSeq
<1>2. ASSUME NEW i \in 1..n
      PROVE  /\ data[i] \in Seq(Byte) /\ Len(data[i]) \in Nat
             /\ length[i] = Len(ps[i])
             /\ compressed => uncompress(data[i]) = ps[i]
             /\ ~compressed => data[i] = ps[i]
  <2>1. ps[i] \in Frames
    BY <1>1
  <2>2. data[i] = Stored(ps[i], compressed) /\ length[i] = Len(ps[i])
    OBVIOUS
  <2> HIDE DEF data, length
  <2>3. data[i] \in Seq(Byte)
    BY <2>1, <2>2, StoredType
  <2>4. compressed => uncompress(data[i]) = ps[i]
    BY <2>1, <2>2, StoredType
  <2>5. ~compressed => data[i] = ps[i]
    BY <2>1, <2>2, StoredType
  <2> QED
    BY <2>2, <2>3, <2>4, <2>5
<1>3. Records(b, n, data, length, "little")
  <2> DEFINE header == LbnHeader(Len(ps), IF compressed THEN 1 ELSE 0)
  <2>1. header = LbnHeader(Len(ps), IF compressed THEN 1 ELSE 0)
    OBVIOUS
  <2> HIDE DEF header
  <2>2. LbnShaped(b, ps, compressed, header)
    BY <2>1, LbnShape
  <2> QED
    BY <2>2 DEF LbnShaped
<1> HIDE DEF data, length
<1>4. Found(q, w, o, data, length, "little")
  <2> HIDE DEF n
  <2>1. CutOff(b, n + 1, w, part) /\ "little" \in Orders
    BY DEF n, Orders
  <2> QED
    BY <1>1, <1>3, <2>1, RecordsRead
<1>w. w \in 1..(n + 1)
  BY DEF CutOff
<1>5. \A i \in 1..(w + 1) : o[i] \in Nat
  BY DEF Layout
<1> DEFINE oo == [i \in 1..w |-> o[i + 1]]
           places == Places(next, 24)
<1>6. places = [i \in 1..w |-> oo[i]]
  <2>1. Forward(next, Len(q))
    BY LbnForward
  <2>2. \A i \in 1..w : oo[i] = o[i + 1] /\ oo[i] \in Nat
    BY <1>w, <1>5
  <2>3. ASSUME NEW i \in 1..w, i < w PROVE next[oo[i]] = oo[i + 1] /\ oo[i + 1] # oo[i]
    <3> DEFINE p == o[i + 1]
               m == Len(data[i])
    <3>1. i \in 1..(w - 1) /\ i + 1 \in 1..w /\ (i + 1) + 1 = i + 2 /\ i \in 1..n
      BY <1>1, <1>w, <2>3
    <3>2. oo[i] = p /\ oo[i + 1] = o[i + 2] /\ p \in Nat
      BY <2>2, <3>1
    <3>3. /\ p + 16 <= Len(q) /\ Word(q, p + 8, "little") = m
          /\ Word(q, p + 12, "little") = length[i]
          /\ m <= Len(q) - (p + 16) /\ o[i + 2] = p + 16 + m
          /\ Bytes(q, p + 16, m) = data[i]
      BY <1>4, <3>1 DEF Found
    <3>4. m \in Nat
      BY <1>2, <3>1
    <3> HIDE DEF p, m
    <3>5. LbnData(q, p) = data[i]
      BY <3>3 DEF LbnData
    <3>6. LbnCompressed(q) => Len(uncompress(LbnData(q, p))) = Word(q, p + 12, "little")
      BY <1>2, <3>1, <3>3, <3>5
    <3>7. next[p] = p + 16 + m
      BY <3>2, <3>3, <3>6 DEF LbnNext, Fits
    <3> HIDE DEF next, oo
    <3> QED
      BY <3>2, <3>3, <3>4, <3>7
  <2>4. next[oo[w]] = oo[w]
    <3>1. w \in 1..w /\ oo[w] = o[w + 1] /\ o[w + 1] \in Nat
      BY <1>w, <2>2
    <3>2. next[o[w + 1]] = o[w + 1]
      BY <1>4, <3>1 DEF Found, LbnNext, Fits
    <3> QED
      BY <3>1, <3>2
  <2>5. oo[1] = 24
    BY <1>4, <1>w DEF Found
  <2>6. w \in Nat /\ w >= 1 /\ Len(q) \in Nat
    BY <1>w
  <2> HIDE DEF next, oo
  <2>7. Places(next, oo[1]) = [i \in 1..w |-> oo[i]]
    <3>1. Steps(next, oo, w)
      BY <2>2, <2>3, <2>4 DEF Steps
    <3> QED
      BY <2>1, <2>6, <3>1, PlacesAre
  <2> QED
    BY <2>5, <2>7
<1>7. Len(places) = w /\ \A i \in 1..w : places[i] = o[i + 1]
  <2>1. w \in Nat
    BY <1>w
  <2> HIDE DEF places
  <2> QED
    BY <1>6, <2>1
<1> DEFINE packet(i) == IF LbnCompressed(q) THEN uncompress(LbnData(q, places[i]))
                        ELSE LbnData(q, places[i])
<1>8. LbnPackets(q) = [i \in 1..(w - 1) |-> packet(i)]
  <2>1. (IF Len(places) - 1 < n THEN Len(places) - 1 ELSE n) = w - 1
    BY <1>1, <1>7, <1>w
  <2>2. LbnPackets(q) = [i \in 1..(IF Len(places) - 1 < n THEN Len(places) - 1 ELSE n) |-> packet(i)]
    BY DEF LbnPackets
  <2> HIDE DEF places, packet
  <2> QED
    BY <2>1, <2>2
<1> HIDE DEF places
<1>9. ASSUME NEW i \in 1..(w - 1) PROVE packet(i) = ps[i]
  <2>1. places[i] = o[i + 1] /\ i \in 1..n
    BY <1>1, <1>7, <1>w
  <2>2. LbnData(q, places[i]) = data[i]
    BY <1>4, <2>1 DEF Found, LbnData
  <2> QED
    BY <1>2, <2>1, <2>2
<1> HIDE DEF packet
<1> QED
  BY <1>8, <1>9

\* An lbn file, compressed or not, cut off anywhere, is read as the packets that are whole.
LEMMA LbnFile ==
  ASSUME NEW ps \in Seq(Frames), Len(ps) \in Word32, NEW compressed \in BOOLEAN,
         NEW b, b = LbnBlocks(ps, compressed), NEW w, NEW part, NEW q,
         FileOf(q, b, Len(ps) + 1, w, part)
  PROVE  /\ ReadsOf(q, ps)
         /\ w = Len(ps) + 1 => ReadsWhole(q, ps, 1) /\ detect_file_type(q) # "pcapng"
<1> DEFINE n == Len(ps)
           flags == IF compressed THEN 1 ELSE 0
           header == LbnHeader(n, flags)
           sum == lbn_checksum(header)
<1>1. PICK o : Layout(q, b, w, part, o)
  BY DEF FileOf
<1>2. /\ q \in Seq(Byte) /\ Len(q) \in Nat /\ w \in 0..(n + 1) /\ part \in Nat /\ n \in Nat
      /\ part = 0 \/ (w < n + 1 /\ part < Len(b[w + 1]))
  BY DEF FileOf
<1>3. /\ b[1] = LBN_MAGIC \o header \o sum
      /\ header \in Seq(Byte) /\ Len(header) = 16 /\ Len(b[1]) = 24
  <2>1. header = LbnHeader(Len(ps), IF compressed THEN 1 ELSE 0)
    OBVIOUS
  <2> HIDE DEF header, n
  <2>2. LbnShaped(b, ps, compressed, header)
    BY <2>1, LbnShape
  <2> QED
    BY <2>2 DEF LbnShaped
<1>4. CASE w = 0
  <2>1. Len(q) = o[0 + 1] + part /\ o[1] = 0
    BY <1>1, <1>4 DEF Layout
  <2>2. part = 0 \/ part < Len(b[0 + 1])
    BY <1>2, <1>4
  <2>3. Len(q) < 24
    BY <1>2, <1>3, <2>1, <2>2
  <2>4. Read(q) = Nothing
    BY <1>2, <2>3, ShortFile
  <2> QED
    BY <1>2, <1>4, <2>4, NothingReadsOf
<1>5. CASE w # 0
  <2>1. LBN_MAGIC \in Seq(Byte) /\ Len(LBN_MAGIC) = 4
    <3>1. 76 \in Byte /\ 66 \in Byte /\ 78 \in Byte /\ 1 \in Byte
      BY DEF Byte
    <3> QED
      BY <3>1, FourBytes DEF LBN_MAGIC, InOrder
  <2>2. sum \in Seq(Byte) /\ Len(sum) = 4
    BY <1>3, Checksum
  <2>3. flags \in Word32 /\ n \in Word32
    <3>1. 0 \in Word32 /\ 1 \in Word32
      BY SMT DEF Word32
    <3> QED
      BY <3>1
  <2> HIDE DEF header, sum, flags, n
  <2> DEFINE mh == LBN_MAGIC \o header
  <2>4. mh \in Seq(Byte) /\ Len(mh) = 20
    <3>1. mh \in Seq(Byte) /\ Len(mh) = Len(LBN_MAGIC) + Len(header)
      BY <1>3, <2>1, ConcatProperties
    <3> QED
      BY <1>3, <2>1, <3>1
  <2>5. Holds(q, 0, mh \o sum) /\ Len(q) >= 24
    <3>1. 1 \in 1..w
      BY <1>2, <1>5
    <3>2. Holds(q, 0, b[1])
      BY <1>1, <3>1 DEF Layout
    <3>3. Len(q) >= 24
      BY <1>2, <1>3, <3>2 DEF Holds, Begins
    <3> QED
      BY <1>3, <3>2, <3>3
  <2>6. Holds(q, 0, mh) /\ Holds(q, 20, sum)
    <3> HIDE DEF mh
    <3>1. Holds(q, 0, mh) /\ Holds(q, 0 + Len(mh), sum)
      BY <1>2, <2>2, <2>4, <2>5, HoldsParts
    <3> QED
      BY <2>4, <3>1
  <2>7. Holds(q, 0, LBN_MAGIC) /\ Holds(q, 4, header)
    <3>1. Holds(q, 0, LBN_MAGIC) /\ Holds(q, 0 + Len(LBN_MAGIC), header)
      BY <1>2, <1>3, <2>1, <2>6, HoldsParts
    <3> QED
      BY <2>1, <3>1
  <2> HIDE DEF mh
  <2>8. Bytes(q, 0, 4) = LBN_MAGIC
    <3>1. Bytes(q, 0, Len(LBN_MAGIC)) = LBN_MAGIC
      BY <1>2, <2>1, <2>7, HoldsBytes
    <3> QED
      BY <2>1, <3>1
  <2>9. Bytes(q, 4, 16) = header
    <3>1. Bytes(q, 4, Len(header)) = header
      BY <1>2, <1>3, <2>7, HoldsBytes
    <3> QED
      BY <1>3, <3>1
  <2>10. Bytes(q, 20, 4) = sum
    <3>1. Bytes(q, 20, Len(sum)) = sum
      BY <1>2, <2>2, <2>6, HoldsBytes
    <3> QED
      BY <2>2, <3>1
  <2>11. Word(q, 12, "little") = n /\ Word(q, 16, "little") = flags
    <3>1. Holds(q, 4, LbnHeader(n, flags)) /\ 4 \in Nat /\ q \in Seq(Byte)
      BY <1>2, <2>7 DEF header
    <3>2. Word(q, 4 + 8, "little") = n /\ Word(q, 4 + 12, "little") = flags
      BY <2>3, <3>1, LbnHeaderHolds
    <3>3. 4 + 8 = 12 /\ 4 + 12 = 16
      OBVIOUS
    <3> QED
      BY <3>2, <3>3
  <2>12. LbnCompressed(q) <=> compressed
    <3>1. (flags % 2 = 1) <=> compressed
      BY DEF flags
    <3> QED
      BY <2>11, <3>1 DEF LbnCompressed
  <2>13. LbnPackets(q) = [i \in 1..(w - 1) |-> ps[i]]
    <3>1. CutOff(b, Len(ps) + 1, w, part)
      BY <1>2, <1>5 DEF CutOff, n
    <3>2. q \in Seq(Byte) /\ Word(q, 12, "little") = Len(ps)
      BY <1>2, <2>11 DEF n
    <3> QED
      BY <1>1, <2>12, <3>1, <3>2, LbnReads
  <2>14. detect_file_type(q) = "lightbin"
    <3>1. LBN_MAGIC \notin {PCAP_MAGIC_USEC, Reverse(PCAP_MAGIC_USEC), PCAP_MAGIC_NSEC}
          /\ LBN_MAGIC # BLOCK_TYPE_SHB
      BY Magics, SMT
    <3> QED
      BY <2>8, <3>1 DEF detect_file_type
  <2>15. Read(q) = [packets |-> LbnPackets(q), link |-> 1, ok |-> TRUE]
    <3>1. lbn_checksum(Bytes(q, 4, 16)) = Bytes(q, 20, 4)
      BY <2>9, <2>10 DEF sum
    <3>2. ~(Len(q) < 24)
      BY <1>2, <2>5
    <3>3. lbn_load(q) = [packets |-> LbnPackets(q), link |-> 1, ok |-> TRUE]
      BY <2>8, <3>1, <3>2 DEF lbn_load
    <3> QED
      BY <2>14, <3>3 DEF Read
  <2>16. w - 1 \in 0..n /\ (w = n + 1 => w - 1 = n)
    BY <1>2, <1>5
  <2>17. ReadsOf(q, ps)
    <3>1. Read(q).packets = [i \in 1..(w - 1) |-> ps[i]]
      BY <2>13, <2>15
    <3> QED
      BY <2>16, <3>1 DEF ReadsOf, n
  <2>18. ASSUME w = n + 1 PROVE ReadsWhole(q, ps, 1)
    <3>1. LbnPackets(q) = [i \in 1..n |-> ps[i]]
      BY <2>13, <2>16, <2>18
    <3>2. [i \in 1..n |-> ps[i]] = ps
      BY DEF n
    <3>3. LbnPackets(q) = ps
      BY <3>1, <3>2
    <3> QED
      BY <2>15, <3>3 DEF ReadsWhole
  <2> QED
    BY <2>14, <2>17, <2>18 DEF n
<1> QED
  BY <1>4, <1>5

-----------------------------------------------------------------------------
(* The blocks of pcapng *)

\* A packet is padded by three bytes at most.
LEMMA Aligned ==
  ASSUME NEW n \in Nat
  PROVE  align4(n) \in Nat /\ n <= align4(n) /\ align4(n) <= n + 3
BY SMT DEF align4

\* A block is twelve bytes more than its body ...
LEMMA BlockType ==
  ASSUME NEW type \in Seq(Byte), Len(type) = 4, NEW body \in Seq(Byte), NEW order \in Orders,
         Len(body) + 12 \in Word32
  PROVE  Block(type, body, order) \in Seq(Byte) /\ Len(Block(type, body, order)) = Len(body) + 12
<1> DEFINE n == Len(body)
           total == Number(n + 12, order)
           tt == type \o total
           ttb == tt \o body
           c == ttb \o total
<1>1. n \in Nat /\ total \in Seq(Byte) /\ Len(total) = 4
  BY NumberBytes
<1> HIDE DEF total
<1>2. tt \in Seq(Byte) /\ Len(tt) = Len(type) + Len(total)
  BY <1>1, ConcatProperties
<1> HIDE DEF tt
<1>3. ttb \in Seq(Byte) /\ Len(ttb) = Len(tt) + Len(body)
  BY <1>2, ConcatProperties
<1> HIDE DEF ttb
<1>4. c \in Seq(Byte) /\ Len(c) = Len(ttb) + Len(total)
  BY <1>1, <1>3, ConcatProperties
<1>5. Block(type, body, order) = c
  BY DEF Block, c, ttb, tt, total
<1> HIDE DEF c, n
<1>6. Len(body) = n
  BY DEF n
<1>7. Len(c) = n + 12
  BY <1>1, <1>2, <1>3, <1>4, <1>6
<1> QED
  BY <1>4, <1>5, <1>6, <1>7

\* What stands at offset p when a block does.
BlockAt(q, p, type, body, total, order) ==
  /\ Holds(q, p, type) /\ Holds(q, p + 8, body)
  /\ Word(q, p + 4, order) = total /\ Word(q, p + total - 4, order) = total
  /\ p + total <= Len(q)

\* ... and what holds it holds its type, its length, its body and its length again.
LEMMA BlockHolds ==
  ASSUME NEW type \in Seq(Byte), Len(type) = 4, NEW body \in Seq(Byte), NEW order \in Orders,
         NEW total, total = Len(body) + 12, total \in Word32,
         NEW q \in Seq(Byte), NEW p \in Nat, Holds(q, p, Block(type, body, order))
  PROVE  BlockAt(q, p, type, body, total, order)
<1> DEFINE t == Number(total, order)
           tt == type \o t
           ttb == tt \o body
           c == ttb \o t
<1>1. t \in Seq(Byte) /\ Len(t) = 4
  BY NumberBytes
<1>2. Block(type, body, order) = c
  BY DEF Block
<1> HIDE DEF t
<1>3. tt \in Seq(Byte) /\ Len(tt) = 8
  <2>1. tt \in Seq(Byte) /\ Len(tt) = Len(type) + Len(t)
    BY <1>1, ConcatProperties
  <2> QED
    BY <1>1, <2>1
<1> HIDE DEF tt
<1>4. ttb \in Seq(Byte) /\ Len(ttb) = 8 + Len(body)
  <2>1. ttb \in Seq(Byte) /\ Len(ttb) = Len(tt) + Len(body)
    BY <1>3, ConcatProperties
  <2> QED
    BY <1>3, <2>1
<1> HIDE DEF ttb
<1>5. Len(body) \in Nat /\ p + total <= Len(q)
  <2>1. Len(Block(type, body, order)) = Len(body) + 12
    BY BlockType
  <2>2. p + Len(Block(type, body, order)) <= Len(q)
    BY DEF Holds, Begins
  <2> QED
    BY <2>1, <2>2
<1>6. Holds(q, p, ttb) /\ Holds(q, p + Len(ttb), t)
  <2>1. Holds(q, p, ttb \o t)
    BY <1>2
  <2> QED
    BY <1>1, <1>4, <2>1, HoldsParts
<1>7. Holds(q, p, tt) /\ Holds(q, p + Len(tt), body)
  <2>1. Holds(q, p, tt \o body)
    BY <1>6 DEF ttb
  <2> QED
    BY <1>3, <2>1, HoldsParts
<1>8. Holds(q, p, type) /\ Holds(q, p + Len(type), t)
  <2>1. Holds(q, p, type \o t)
    BY <1>7 DEF tt
  <2> QED
    BY <1>1, <2>1, HoldsParts
<1>9. p + Len(ttb) = p + total - 4 /\ p + total - 4 \in Nat /\ p + Len(tt) = p + 8
      /\ p + Len(type) = p + 4 /\ p + 4 \in Nat
  BY <1>3, <1>4, <1>5
<1>10. Word(q, p + 4, order) = total
  <2>1. Holds(q, p + 4, Number(total, order)) /\ p + 4 \in Nat
    BY <1>8, <1>9 DEF t
  <2> QED
    BY <2>1, HoldsNumber
<1>11. Word(q, p + total - 4, order) = total
  <2>1. Holds(q, p + total - 4, Number(total, order)) /\ p + total - 4 \in Nat
    BY <1>6, <1>9 DEF t
  <2> QED
    BY <2>1, HoldsNumber
<1> QED
  BY <1>5, <1>7, <1>8, <1>9, <1>10, <1>11 DEF BlockAt

\* Of a block that was cut off eight bytes tell how long it was.
LEMMA BlockBegins ==
  ASSUME NEW type \in Seq(Byte), Len(type) = 4, NEW body \in Seq(Byte), NEW order \in Orders,
         NEW total, total = Len(body) + 12, total \in Word32,
         NEW q \in Seq(Byte), NEW p \in Nat, NEW n \in Nat, n >= 8,
         Begins(q, p, Block(type, body, order), n)
  PROVE  Holds(q, p, type) /\ Word(q, p + 4, order) = total
<1> DEFINE t == Number(total, order)
           tt == type \o t
           ttb == tt \o body
           c == ttb \o t
<1>1. t \in Seq(Byte) /\ Len(t) = 4
  BY NumberBytes
<1>2. Block(type, body, order) = c
  BY DEF Block
<1> HIDE DEF t
<1>3. tt \in Seq(Byte) /\ Len(tt) = 8
  <2>1. tt \in Seq(Byte) /\ Len(tt) = Len(type) + Len(t)
    BY <1>1, ConcatProperties
  <2> QED
    BY <1>1, <2>1
<1> HIDE DEF tt
<1> DEFINE rest == body \o t
<1>4. c = tt \o rest /\ rest \in Seq(Byte)
  <2>1. tt \in Seq(Byte) /\ t \in Seq(Byte)
    BY <1>1, <1>3
  <2>2. c = tt \o rest
    <3>1. (tt \o body) \o t = tt \o (body \o t)
      BY <2>1, SMTT(30)
    <3> QED
      BY <3>1 DEF rest
  <2>3. rest \in Seq(Byte)
    BY <2>1, ConcatProperties
  <2> QED
    BY <2>2, <2>3
<1> HIDE DEF rest
<1>5. Holds(q, p, tt)
  <2>1. Begins(q, p, tt \o rest, n) /\ n >= Len(tt)
    BY <1>2, <1>3, <1>4
  <2> QED
    BY <1>3, <1>4, <2>1, BeginsPart
<1>6. Holds(q, p, type) /\ Holds(q, p + Len(type), t)
  <2>1. Holds(q, p, type \o t)
    BY <1>5 DEF tt
  <2> QED
    BY <1>1, <2>1, HoldsParts
<1>7. Holds(q, p + 4, Number(total, order)) /\ p + 4 \in Nat
  BY <1>6 DEF t
<1> QED
  BY <1>6, <1>7, HoldsNumber

\* The section header.
LEMMA SectionType ==
  ASSUME NEW order \in Orders
  PROVE  /\ BLOCK_TYPE_SHB \in Seq(Byte) /\ Len(BLOCK_TYPE_SHB) = 4
         /\ InOrder(BYTE_ORDER_MAGIC, order) \in Seq(Byte) /\ Len(InOrder(BYTE_ORDER_MAGIC, order)) = 4
         /\ InOrder(BYTE_ORDER_MAGIC, order) \o Zeros(12) \in Seq(Byte)
         /\ Len(InOrder(BYTE_ORDER_MAGIC, order) \o Zeros(12)) = 16
         /\ 28 \in Word32
         /\ SectionHeader(order) \in Seq(Byte) /\ Len(SectionHeader(order)) = 28
<1> DEFINE magic == InOrder(BYTE_ORDER_MAGIC, order)
           z == Zeros(12)
           body == magic \o z
<1>1. BLOCK_TYPE_SHB \in Seq(Byte) /\ Len(BLOCK_TYPE_SHB) = 4
  <2>1. 10 \in Byte /\ 13 \in Byte
    BY DEF Byte
  <2> QED
    BY <2>1, FourBytes DEF BLOCK_TYPE_SHB, InOrder
<1>2. magic \in Seq(Byte) /\ Len(magic) = 4
  <2>1. 77 \in Byte /\ 60 \in Byte /\ 43 \in Byte /\ 26 \in Byte
    BY DEF Byte
  <2> QED
    BY <2>1, FourBytes DEF BYTE_ORDER_MAGIC
<1>3. z \in Seq(Byte) /\ Len(z) = 12
  BY ZerosType
<1> HIDE DEF magic, z
<1>4. body \in Seq(Byte) /\ Len(body) = 16
  <2>1. body \in Seq(Byte) /\ Len(body) = Len(magic) + Len(z)
    BY <1>2, <1>3, ConcatProperties
  <2> QED
    BY <1>2, <1>3, <2>1
<1>5. 28 \in Word32
  BY SMT DEF Word32
<1>6. SectionHeader(order) = Block(BLOCK_TYPE_SHB, body, order)
  BY DEF SectionHeader, magic, z
<1> HIDE DEF body
<1>7. Len(body) + 12 = 28
  BY <1>4
<1>8. SectionHeader(order) \in Seq(Byte) /\ Len(SectionHeader(order)) = 28
  BY <1>1, <1>4, <1>5, <1>6, <1>7, BlockType
<1> QED
  BY <1>1, <1>2, <1>4, <1>5, <1>8 DEF body, magic, z

\* What a file that begins with it tells: its order, and the lengths.
LEMMA SectionHolds ==
  ASSUME NEW order \in Orders, NEW q \in Seq(Byte), Holds(q, 0, SectionHeader(order))
  PROVE  /\ Bytes(q, 0, 4) = BLOCK_TYPE_SHB
         /\ Bytes(q, 8, 4) = InOrder(BYTE_ORDER_MAGIC, order)
         /\ Word(q, 4, order) = 28 /\ Word(q, 24, order) = 28
         /\ Len(q) >= 28
<1> DEFINE magic == InOrder(BYTE_ORDER_MAGIC, order)
           z == Zeros(12)
           body == magic \o z
<1>1. /\ BLOCK_TYPE_SHB \in Seq(Byte) /\ Len(BLOCK_TYPE_SHB) = 4
      /\ magic \in Seq(Byte) /\ Len(magic) = 4
      /\ body \in Seq(Byte) /\ Len(body) = 16
      /\ 28 \in Word32
  BY SectionType
<1>2. z \in Seq(Byte)
  BY ZerosType
<1>3. SectionHeader(order) = Block(BLOCK_TYPE_SHB, body, order)
  BY DEF SectionHeader
<1> HIDE DEF magic, z, body
<1>4. 28 = Len(body) + 12
  BY <1>1
<1>5. /\ Holds(q, 0, BLOCK_TYPE_SHB) /\ Holds(q, 0 + 8, body)
      /\ Word(q, 0 + 4, order) = 28 /\ Word(q, 0 + 28 - 4, order) = 28
      /\ 0 + 28 <= Len(q)
  <2>1. Holds(q, 0, Block(BLOCK_TYPE_SHB, body, order)) /\ 0 \in Nat
    BY <1>3
  <2>2. BlockAt(q, 0, BLOCK_TYPE_SHB, body, 28, order)
    BY <1>1, <1>4, <2>1, BlockHolds
  <2> QED
    BY <2>2 DEF BlockAt
<1>6. 0 + 8 = 8 /\ 0 + 4 = 4 /\ 0 + 28 - 4 = 24
  OBVIOUS
<1>7. Holds(q, 8, magic)
  <2>1. Holds(q, 8, magic \o z)
    BY <1>5, <1>6 DEF body
  <2> QED
    BY <1>1, <1>2, <2>1, HoldsParts
<1>8. Bytes(q, 0, 4) = BLOCK_TYPE_SHB
  <2>1. Bytes(q, 0, Len(BLOCK_TYPE_SHB)) = BLOCK_TYPE_SHB
    BY <1>1, <1>5, HoldsBytes
  <2> QED
    BY <1>1, <2>1
<1>9. Bytes(q, 8, 4) = magic
  <2>1. Bytes(q, 8, Len(magic)) = magic
    BY <1>1, <1>7, HoldsBytes
  <2> QED
    BY <1>1, <2>1
<1>10. Len(q) >= 28
  BY <1>5
<1> QED
  BY <1>5, <1>6, <1>8, <1>9, <1>10 DEF magic

\* A file that was cut off within it is still taken for pcapng.
LEMMA SectionBegins ==
  ASSUME NEW order \in Orders, NEW q \in Seq(Byte), NEW n \in Nat, n >= 8,
         Begins(q, 0, SectionHeader(order), n)
  PROVE  Bytes(q, 0, 4) = BLOCK_TYPE_SHB
<1> DEFINE body == InOrder(BYTE_ORDER_MAGIC, order) \o Zeros(12)
<1>1. /\ BLOCK_TYPE_SHB \in Seq(Byte) /\ Len(BLOCK_TYPE_SHB) = 4
      /\ body \in Seq(Byte) /\ Len(body) = 16 /\ 28 \in Word32
  BY SectionType
<1>2. SectionHeader(order) = Block(BLOCK_TYPE_SHB, body, order)
  BY DEF SectionHeader
<1> HIDE DEF body
<1>3. 28 = Len(body) + 12
  BY <1>1
<1>4. Holds(q, 0, BLOCK_TYPE_SHB)
  BY <1>1, <1>2, <1>3, BlockBegins
<1>5. Bytes(q, 0, Len(BLOCK_TYPE_SHB)) = BLOCK_TYPE_SHB
  BY <1>1, <1>4, HoldsBytes
<1> QED
  BY <1>1, <1>5

\* Two bytes in either order.
LEMMA TwoBytes ==
  ASSUME NEW b1 \in Byte, NEW b2 \in Byte, NEW order \in Orders
  PROVE  /\ InOrder(<<b1, b2>>, order) \in Seq(Byte)
         /\ Len(InOrder(<<b1, b2>>, order)) = 2
         /\ InOrder(InOrder(<<b1, b2>>, order), order) = <<b1, b2>>
<1>1. Reverse(<<b1, b2>>) = <<b2, b1>> /\ Reverse(<<b2, b1>>) = <<b1, b2>>
  BY DEF Reverse
<1>2. <<b1, b2>> \in Seq(Byte) /\ <<b2, b1>> \in Seq(Byte)
  OBVIOUS
<1> QED
  BY <1>1, <1>2 DEF InOrder

\* The description of the interface.
LEMMA InterfaceType ==
  ASSUME NEW link \in LinkTypes, NEW order \in Orders
  PROVE  \E body \in Seq(Byte) :
           /\ InterfaceBlock(link, order) = Block(Number(BLOCK_TYPE_IDB, order), body, order)
           /\ Len(body) = 20
           /\ \A q \in Seq(Byte), p \in Nat :
                Holds(q, p, body) => Holds(q, p, InOrder(<<link, 0>>, order))
<1> DEFINE l  == InOrder(<<link, 0>>, order)
           z6 == Zeros(6)
           o2 == InOrder(<<2, 0>>, order)
           o4 == InOrder(<<4, 0>>, order)
           z4 == Zeros(4)
           b1 == l \o z6
           b2 == b1 \o o2
           b3 == b2 \o o4
           b4 == b3 \o z4
           b5 == b4 \o z4
<1>1. l \in Seq(Byte) /\ Len(l) = 2
  <2>1. link \in Byte
    BY LinkNumber
  <2>2. 0 \in Byte
    BY DEF Byte
  <2> QED
    BY <2>1, <2>2, TwoBytes
<1>2. /\ o2 \in Seq(Byte) /\ Len(o2) = 2 /\ o4 \in Seq(Byte) /\ Len(o4) = 2
      /\ z6 \in Seq(Byte) /\ Len(z6) = 6 /\ z4 \in Seq(Byte) /\ Len(z4) = 4
  <2>1. 2 \in Byte /\ 4 \in Byte /\ 0 \in Byte
    BY DEF Byte
  <2>2. o2 \in Seq(Byte) /\ Len(o2) = 2
    BY <2>1, TwoBytes
  <2>3. o4 \in Seq(Byte) /\ Len(o4) = 2
    BY <2>1, TwoBytes
  <2>4. z6 \in Seq(Byte) /\ Len(z6) = 6
    BY ZerosType
  <2>5. z4 \in Seq(Byte) /\ Len(z4) = 4
    BY ZerosType
  <2> QED
    BY <2>2, <2>3, <2>4, <2>5
<1>3. InterfaceBlock(link, order) = Block(Number(BLOCK_TYPE_IDB, order), b5, order)
  BY DEF InterfaceBlock
<1> HIDE DEF l, z6, o2, o4, z4, b1, b2, b3, b4, b5
<1>4. b1 \in Seq(Byte) /\ Len(b1) = Len(l) + Len(z6)
  BY <1>1, <1>2, ConcatProperties DEF b1
<1>5. b2 \in Seq(Byte) /\ Len(b2) = Len(b1) + Len(o2)
  BY <1>2, <1>4, ConcatProperties DEF b2
<1>6. b3 \in Seq(Byte) /\ Len(b3) = Len(b2) + Len(o4)
  BY <1>2, <1>5, ConcatProperties DEF b3
<1>7. b4 \in Seq(Byte) /\ Len(b4) = Len(b3) + Len(z4)
  BY <1>2, <1>6, ConcatProperties DEF b4
<1>8. b5 \in Seq(Byte) /\ Len(b5) = Len(b4) + Len(z4)
  <2>1. b4 \in Seq(Byte) /\ z4 \in Seq(Byte)
    BY <1>2, <1>7
  <2> QED
    BY <2>1, ConcatProperties DEF b5
<1>9. Len(b5) = 20
  BY <1>1, <1>2, <1>4, <1>5, <1>6, <1>7, <1>8
<1>10. ASSUME NEW q \in Seq(Byte), NEW p \in Nat, Holds(q, p, b5)
       PROVE  Holds(q, p, l)
  <2>1. Holds(q, p, b4)
    BY <1>2, <1>7, <1>10, HoldsParts DEF b5
  <2>2. Holds(q, p, b3)
    BY <1>2, <1>6, <2>1, HoldsParts DEF b4
  <2>3. Holds(q, p, b2)
    BY <1>2, <1>5, <2>2, HoldsParts DEF b3
  <2>4. Holds(q, p, b1)
    BY <1>2, <1>4, <2>3, HoldsParts DEF b2
  <2> QED
    BY <1>1, <1>2, <2>4, HoldsParts DEF b1
<1> QED
  BY <1>3, <1>8, <1>9, <1>10 DEF l

\* The types of the blocks differ.
LEMMA Types ==
  /\ BLOCK_TYPE_IDB \in Word32 /\ BLOCK_TYPE_EPB \in Word32 /\ BLOCK_TYPE_IDB # BLOCK_TYPE_EPB
  /\ 32 \in Word32
BY SMT DEF BLOCK_TYPE_IDB, BLOCK_TYPE_EPB, Word32

\* A block that was cut off is not whole.
LEMMA CutBlock ==
  ASSUME NEW type \in Seq(Byte), Len(type) = 4, NEW body \in Seq(Byte), NEW order \in Orders,
         NEW total, total = Len(body) + 12, total \in Word32,
         NEW q \in Seq(Byte), NEW p \in Nat, NEW n \in Nat, n < total, Len(q) = p + n,
         n > 0 => Begins(q, p, Block(type, body, order), n)
  PROVE  ~WholeBlock(q, p, order)
<1>1. CASE n < 8
  BY <1>1 DEF WholeBlock
<1>2. CASE n >= 8
  <2>1. Begins(q, p, Block(type, body, order), n)
    BY <1>2
  <2>2. Word(q, p + 4, order) = total
    BY <1>2, <2>1, BlockBegins
  <2>3. ~(total <= Len(q) - p)
    <3>1. total \in Nat
      OBVIOUS
    <3> QED
      BY <3>1
  <2> QED
    BY <2>2, <2>3 DEF WholeBlock
<1> QED
  BY <1>1, <1>2

\* No reader takes part of c for a block.
NoPartOf(c, order) ==
  \A q \in Seq(Byte), p \in Nat, n \in Nat :
    n < Len(c) /\ Len(q) = p + n /\ (n > 0 => Begins(q, p, c, n)) => ~WholeBlock(q, p, order)
\* What a reader finds at offset p of the description of the interface, and of a packet.
InterfaceAt(q, p, link, order) ==
  /\ WholeBlock(q, p, order)
  /\ Word(q, p, order) = BLOCK_TYPE_IDB
  /\ Word(q, p + 4, order) = 32
  /\ InOrder(Bytes(q, p + 8, 2), order)[1] = link
PacketAt(q, p, f, length, order) ==
  /\ WholeBlock(q, p, order)
  /\ Word(q, p, order) = BLOCK_TYPE_EPB
  /\ Word(q, p + 4, order) = length
  /\ Word(q, p + 20, order) = Len(f)
  /\ Bytes(q, p + 28, Len(f)) = f

\* The description of the interface is read where it stands, and never when it was cut off.
LEMMA InterfaceHolds ==
  ASSUME NEW link \in LinkTypes, NEW order \in Orders, NEW c, c = InterfaceBlock(link, order)
  PROVE  /\ c \in Seq(Byte) /\ Len(c) = 32
         /\ \A q \in Seq(Byte), p \in Nat : Holds(q, p, c) => InterfaceAt(q, p, link, order)
         /\ NoPartOf(c, order)
<1> DEFINE l == InOrder(<<link, 0>>, order)
           type == Number(BLOCK_TYPE_IDB, order)
<1>1. PICK body \in Seq(Byte) :
        /\ c = Block(type, body, order)
        /\ Len(body) = 20
        /\ \A q \in Seq(Byte), p \in Nat : Holds(q, p, body) => Holds(q, p, l)
  BY InterfaceType
<1>2. l \in Seq(Byte) /\ Len(l) = 2 /\ InOrder(l, order) = <<link, 0>>
  <2>1. link \in Byte
    BY LinkNumber
  <2>2. 0 \in Byte
    BY DEF Byte
  <2> QED
    BY <2>1, <2>2, TwoBytes
<1>3. type \in Seq(Byte) /\ Len(type) = 4
  BY NumberBytes, Types
<1> HIDE DEF l
<1>4. 32 = Len(body) + 12 /\ 32 \in Word32
  BY <1>1, Types
<1>5. c \in Seq(Byte) /\ Len(c) = 32
  <2> HIDE DEF type
  <2>1. Len(body) + 12 \in Word32
    BY <1>4
  <2>2. Block(type, body, order) \in Seq(Byte) /\ Len(Block(type, body, order)) = Len(body) + 12
    BY <1>3, <2>1, BlockType
  <2>3. c = Block(type, body, order)
    BY <1>1
  <2> QED
    BY <1>4, <2>2, <2>3
<1>6. ASSUME NEW q \in Seq(Byte), NEW p \in Nat, Holds(q, p, c)
      PROVE  InterfaceAt(q, p, link, order)
  <2>1. BlockAt(q, p, type, body, 32, order)
    <3> HIDE DEF type
    <3>1. Holds(q, p, Block(type, body, order))
      BY <1>1, <1>6
    <3> QED
      BY <1>3, <1>4, <3>1, BlockHolds
  <2>2. /\ Holds(q, p, type) /\ Holds(q, p + 8, body)
        /\ Word(q, p + 4, order) = 32 /\ Word(q, p + 32 - 4, order) = 32 /\ p + 32 <= Len(q)
    BY <2>1 DEF BlockAt
  <2>3. Word(q, p, order) = BLOCK_TYPE_IDB
    BY <2>2, HoldsNumber, Types
  <2>4. WholeBlock(q, p, order)
    <3>1. p + 8 <= Len(q) /\ 32 <= Len(q) - p
      BY <2>2
    <3>2. BLOCK_TYPE_IDB # BLOCK_TYPE_EPB
      BY Types
    <3> QED
      BY <2>2, <2>3, <3>1, <3>2 DEF WholeBlock
  <2>5. Bytes(q, p + 8, 2) = l
    <3>1. Holds(q, p + 8, l) /\ p + 8 \in Nat
      BY <1>1, <2>2
    <3>2. Bytes(q, p + 8, Len(l)) = l
      BY <1>2, <3>1, HoldsBytes
    <3> QED
      BY <1>2, <3>2
  <2>6. InOrder(Bytes(q, p + 8, 2), order)[1] = link
    <3>1. InOrder(Bytes(q, p + 8, 2), order) = <<link, 0>>
      BY <1>2, <2>5
    <3> QED
      BY <3>1
  <2> QED
    BY <2>2, <2>3, <2>4, <2>6 DEF InterfaceAt
<1>7. ASSUME NEW q \in Seq(Byte), NEW p \in Nat, NEW n \in Nat, n < Len(c), Len(q) = p + n,
             n > 0 => Begins(q, p, c, n)
      PROVE  ~WholeBlock(q, p, order)
  <2> HIDE DEF type
  <2>1. n > 0 => Begins(q, p, Block(type, body, order), n)
    BY <1>1, <1>7
  <2>2. n < 32
    BY <1>5, <1>7
  <2> QED
    BY <1>1, <1>3, <1>4, <1>7, <2>1, <2>2, CutBlock
<1>8. NoPartOf(c, order)
  BY <1>7 DEF NoPartOf
<1> QED
  BY <1>5, <1>6, <1>8

\* So is a packet.
LEMMA PacketHolds ==
  ASSUME NEW f \in Frames, NEW order \in Orders, NEW c, c = PacketBlock(f, order)
  PROVE  /\ c \in Seq(Byte) /\ Len(c) \in Nat /\ Len(c) > 0
         /\ \A q \in Seq(Byte), p \in Nat : Holds(q, p, c) => PacketAt(q, p, f, Len(c), order)
         /\ NoPartOf(c, order)
<1> DEFINE type == Number(BLOCK_TYPE_EPB, order)
           m == Len(f)
           k == align4(m)
           z == Zeros(12)
           l == Number(m, order)
           pad == Zeros(k - m)
           b1 == z \o l
           b2 == b1 \o l
           b3 == b2 \o f
           body == b3 \o pad
           total == k + 32
<1>1. /\ f \in Seq(Byte) /\ m \in Nat /\ m \in Word32
      /\ k \in Nat /\ m <= k /\ k <= m + 3 /\ k - m \in Nat /\ total \in Word32 /\ total \in Nat
  <2>1. f \in Seq(Byte) /\ m \in Nat /\ \A x \in 0..100 : m + x \in Word32
    BY FrameLength
  <2> HIDE DEF m
  <2>2. k \in Nat /\ m <= k /\ k <= m + 3
    BY <2>1, Aligned
  <2> HIDE DEF k
  <2>3. k - m \in Nat /\ (k - m) + 32 \in 0..100 /\ m + ((k - m) + 32) = k + 32 /\ k + 32 \in Nat
    <3>1. m \in Nat /\ k \in Nat /\ m <= k /\ k <= m + 3
      BY <2>1, <2>2
    <3>2. k - m \in Nat /\ k - m <= 3 /\ k + 32 \in Nat
      BY <3>1, SMT
    <3>3. (k - m) + 32 \in 0..100
      BY <3>2, SMT
    <3>4. m + ((k - m) + 32) = k + 32
      BY <3>1, SMT
    <3> QED
      BY <3>2, <3>3, <3>4
  <2>4. m + 0 \in Word32 /\ m + 0 = m
    BY <2>1
  <2>5. m + ((k - m) + 32) \in Word32
    BY <2>1, <2>3
  <2>6. total \in Word32
    BY <2>3, <2>5
  <2> QED
    BY <2>1, <2>2, <2>3, <2>4, <2>6
<1>2. type \in Seq(Byte) /\ Len(type) = 4 /\ l \in Seq(Byte) /\ Len(l) = 4
  <2> HIDE DEF m
  <2> QED
    BY <1>1, NumberBytes, Types
<1>3. z \in Seq(Byte) /\ Len(z) = 12 /\ pad \in Seq(Byte) /\ Len(pad) = k - m
  <2> HIDE DEF k, m
  <2> QED
    BY <1>1, ZerosType
<1>4. c = Block(type, body, order)
  BY DEF PacketBlock
<1> HIDE DEF type, l, z, pad, b1, b2, b3, body
<1>5. b1 \in Seq(Byte) /\ Len(b1) = Len(z) + Len(l)
  <2>1. z \in Seq(Byte) /\ l \in Seq(Byte)
    BY <1>2, <1>3
  <2> QED
    BY <2>1, ConcatProperties DEF b1
<1>6. b2 \in Seq(Byte) /\ Len(b2) = Len(b1) + Len(l)
  <2>1. b1 \in Seq(Byte) /\ l \in Seq(Byte)
    BY <1>2, <1>5
  <2> QED
    BY <2>1, ConcatProperties DEF b2
<1>7. b3 \in Seq(Byte) /\ Len(b3) = Len(b2) + Len(f)
  <2>1. b2 \in Seq(Byte) /\ f \in Seq(Byte)
    BY <1>1, <1>6
  <2> QED
    BY <2>1, ConcatProperties DEF b3
<1>8. body \in Seq(Byte) /\ Len(body) = Len(b3) + Len(pad)
  <2>1. b3 \in Seq(Byte) /\ pad \in Seq(Byte)
    BY <1>3, <1>7
  <2> QED
    BY <2>1, ConcatProperties DEF body
<1>9. Len(f) = m
  OBVIOUS
<1> HIDE DEF m, k
<1>10. Len(b1) = 16 /\ Len(b2) = 20 /\ Len(b3) = 20 + m /\ Len(body) = 20 + k /\ total = Len(body) + 12
  BY <1>1, <1>2, <1>3, <1>5, <1>6, <1>7, <1>8, <1>9
<1> HIDE DEF total
<1>11. c \in Seq(Byte) /\ Len(c) = total
  <2>1. Len(body) + 12 \in Word32
    BY <1>1, <1>10
  <2>2. c \in Seq(Byte) /\ Len(c) = Len(body) + 12
    BY <1>2, <1>4, <1>8, <2>1, BlockType
  <2> QED
    BY <1>10, <2>2
<1>12. ASSUME NEW q \in Seq(Byte), NEW p \in Nat, Holds(q, p, c)
       PROVE  PacketAt(q, p, f, total, order)
  <2>1. BlockAt(q, p, type, body, total, order)
    <3>1. Holds(q, p, Block(type, body, order))
      BY <1>4, <1>12
    <3> QED
      BY <1>1, <1>2, <1>8, <1>10, <3>1, BlockHolds
  <2>2. /\ Holds(q, p, type) /\ Holds(q, p + 8, body)
        /\ Word(q, p + 4, order) = total /\ Word(q, p + total - 4, order) = total
        /\ p + total <= Len(q)
    BY <2>1 DEF BlockAt
  <2>3. Word(q, p, order) = BLOCK_TYPE_EPB
    BY <2>2, HoldsNumber, Types DEF type
  <2>4. p + 8 \in Nat
    OBVIOUS
  <2>5. Holds(q, p + 8, b3)
    BY <1>3, <1>7, <2>2, <2>4, HoldsParts DEF body
  <2>6. Holds(q, p + 8, b2) /\ Holds(q, (p + 8) + Len(b2), f)
    BY <1>1, <1>6, <2>4, <2>5, HoldsParts DEF b3
  <2>7. Holds(q, p + 8, b1)
    BY <1>2, <1>5, <2>4, <2>6, HoldsParts DEF b2
  <2>8. Holds(q, (p + 8) + Len(z), l)
    BY <1>2, <1>3, <2>4, <2>7, HoldsParts DEF b1
  <2>9. (p + 8) + Len(z) = p + 20 /\ (p + 8) + Len(b2) = p + 28 /\ p + 20 \in Nat /\ p + 28 \in Nat
    BY <1>3, <1>10
  <2>10. Word(q, p + 20, order) = m
    <3>1. Holds(q, p + 20, Number(m, order))
      BY <2>8, <2>9 DEF l
    <3> QED
      BY <1>1, <2>9, <3>1, HoldsNumber
  <2>11. Bytes(q, p + 28, m) = f
    <3>1. Holds(q, p + 28, f)
      BY <2>6, <2>9
    <3>2. Bytes(q, p + 28, Len(f)) = f
      BY <1>1, <2>9, <3>1, HoldsBytes
    <3> QED
      BY <1>9, <3>2
  <2>12. WholeBlock(q, p, order)
    <3>1. /\ p + 8 <= Len(q) /\ total >= 12 /\ total <= Len(q) - p
          /\ total - 12 >= 20 /\ k <= total - 12 - 20 /\ total - 12 >= 8
      <4>1. total = 20 + k + 12 /\ Len(q) \in Nat
        BY <1>10
      <4> QED
        BY <1>1, <2>2, <4>1
    <3>2. align4(Word(q, p + 20, order)) = k
      BY <2>10 DEF k
    <3>3. BLOCK_TYPE_IDB # BLOCK_TYPE_EPB
      BY Types
    <3>4. Word(q, p + 20, order) <= PCAPNG_MAX_PACKET
      BY <1>9, <2>10 DEF Frames
    <3> QED
      BY <2>2, <2>3, <3>1, <3>2, <3>3, <3>4 DEF WholeBlock
  <2> QED
    BY <1>9, <2>2, <2>3, <2>10, <2>11, <2>12 DEF PacketAt
<1>13. ASSUME NEW q \in Seq(Byte), NEW p \in Nat, NEW n \in Nat, n < total, Len(q) = p + n,
              n > 0 => Begins(q, p, c, n)
       PROVE  ~WholeBlock(q, p, order)
  <2>1. n > 0 => Begins(q, p, Block(type, body, order), n)
    BY <1>4, <1>13
  <2> QED
    BY <1>1, <1>2, <1>8, <1>10, <1>13, <2>1, CutBlock
<1>14. total > 0
  BY <1>1 DEF total
<1>15. NoPartOf(c, order)
  BY <1>11, <1>13 DEF NoPartOf
<1> QED
  BY <1>1, <1>11, <1>12, <1>14, <1>15

\* An empty sequence and sequences of one element, flattened.
Ones(s, k, x, T) ==
  /\ s = [i \in 1..k |-> s[i]]
  /\ s[1] = <<>>
  /\ \A j \in 1..(k - 1) : x[j] \in T /\ s[j + 1] = <<x[j]>>

LEMMA FlattenOnes ==
  ASSUME NEW T, NEW k \in Nat, k >= 1, NEW s, NEW x, Ones(s, k, x, T)
  PROVE  FlattenSeq(s) = [j \in 1..(k - 1) |-> x[j]]
<1> USE DEF Ones
<1> DEFINE f == CHOOSE f : S!Flattening(f, s, k)
           K == {i \in 1..k : f[i] = [j \in 1..(i - 1) |-> x[j]]}
<1>1. FlattenSeq(s) = f[k]
  <2>1. Len(s) = k
    OBVIOUS
  <2> QED
    BY <2>1 DEF FlattenSeq, S!Flattening
<1>2. \A i \in 1..k : f[i] = IF i = 1 THEN s[i] ELSE f[i - 1] \o s[i]
  <2>1. S!Flattening(f, s, k)
    BY S!FlatteningExists
  <2> HIDE DEF f
  <2> QED
    BY <2>1 DEF S!Flattening
<1> HIDE DEF f
<1>3. 1 \in K
  <2>1. 1 \in 1..k /\ f[1] = <<>> /\ [j \in 1..(1 - 1) |-> x[j]] = <<>>
    BY <1>2
  <2> QED
    BY <2>1
<1>4. ASSUME NEW i \in 1..k, i \in K, i < k PROVE i + 1 \in K
  <2> DEFINE r == [j \in 1..(i - 1) |-> x[j]]
             a == <<x[i]>>
             l == Len(a)
             m == Len(r)
             c == r \o a
  <2>1. /\ i + 1 \in 1..k /\ i + 1 # 1 /\ (i + 1) - 1 = i /\ i \in 1..(k - 1) /\ i - 1 \in Nat
        /\ \A j \in 1..(i - 1) : j \in 1..(k - 1)
    BY <1>4
  <2>2. f[i + 1] = c
    <3>1. f[i + 1] = f[i] \o s[i + 1]
      BY <1>2, <2>1
    <3>2. f[i] = r /\ s[i + 1] = a
      BY <1>4, <2>1
    <3> QED
      BY <3>1, <3>2
  <2>t. x[i] \in T /\ \A j \in 1..(i - 1) : x[j] \in T
    BY <2>1
  <2>3. r \in Seq(T) /\ m = i - 1 /\ \A j \in 1..m : r[j] = x[j]
    <3>1. r \in [1..(i - 1) -> T]
      BY <2>t
    <3>2. r \in Seq(T) /\ m = i - 1
      BY <2>1, <3>1
    <3> QED
      BY <3>2
  <2>4. a \in Seq(T) /\ l = 1 /\ a[1] = x[i]
    <3> DEFINE y == x[i]
    <3>1. y \in T
      BY <2>t
    <3> HIDE DEF y
    <3>2. <<y>> \in Seq(T) /\ Len(<<y>>) = 1 /\ <<y>>[1] = y
      BY <3>1
    <3> QED
      BY <3>2 DEF y
  <2> HIDE DEF r, a
  <2>5. /\ c \in Seq(T) /\ Len(c) = m + l
        /\ \A j \in 1..(m + l) : c[j] = IF j <= m THEN r[j] ELSE a[j - m]
    BY <2>3, <2>4, ConcatProperties
  <2> HIDE DEF c, l, m
  <2>6. /\ c = [j \in 1..i |-> c[j]]
        /\ \A j \in 1..i : c[j] = IF j <= m THEN r[j] ELSE a[j - m]
    <3>1. m + l = i
      BY <2>1, <2>3, <2>4
    <3> QED
      BY <2>5, <3>1
  <2>7. ASSUME NEW j \in 1..i PROVE c[j] = x[j]
    <3>1. CASE j <= m
      <4>1. j \in 1..m
        BY <2>1, <2>3, <3>1
      <4> QED
        BY <2>3, <2>6, <3>1, <4>1
    <3>2. CASE ~(j <= m)
      <4>1. j = i /\ j - m = 1
        BY <2>1, <2>3, <3>2
      <4> QED
        BY <2>4, <2>6, <3>2, <4>1
    <3> QED
      BY <3>1, <3>2
  <2>8. c = [j \in 1..i |-> x[j]]
    BY <2>6, <2>7
  <2> QED
    BY <2>1, <2>2, <2>8
<1> HIDE DEF K
<1>5. 1..k \subseteq K
  BY <1>3, <1>4, S!CountUp
<1>6. k \in K
  BY <1>5
<1> QED
  BY <1>1, <1>6 DEF K

\* The reader of pcapng goes forward, and stops at the end.
LEMMA PcapngForward ==
  ASSUME NEW q \in Seq(Byte), NEW order
  PROVE  Forward(PcapngNext(q, order), Len(q))
<1> SUFFICES ASSUME NEW p \in Nat
             PROVE  LET next == PcapngNext(q, order)
                    IN  next[p] \in Nat /\ next[p] >= p /\ (p >= Len(q) => next[p] = p)
  BY DEF Forward
<1> DEFINE m == Word(q, p + 4, order)
           e == PcapngNext(q, order)[p]
           whole == WholeBlock(q, p, order)
<1>1. e = IF whole THEN p + m ELSE p
  BY DEF PcapngNext
<1>2. whole => p + 8 <= Len(q) /\ m \in Nat
  <2>1. whole => p + 8 <= Len(q)
    BY DEF WholeBlock
  <2>2. p + 8 <= Len(q) => p + 4 \in Nat /\ (p + 4) + 4 <= Len(q)
    OBVIOUS
  <2>3. p + 8 <= Len(q) => m \in Nat
    BY <2>2, WordNumber
  <2> QED
    BY <2>1, <2>3
<1> HIDE DEF m, e, whole
<1>3. e \in Nat /\ e >= p /\ (p >= Len(q) => e = p)
  <2>1. Len(q) \in Nat
    OBVIOUS
  <2>2. CASE whole
    BY <1>1, <1>2, <2>1, <2>2
  <2>3. CASE ~whole
    BY <1>1, <2>3
  <2> QED
    BY <2>2, <2>3
<1> QED
  BY <1>3 DEF e

\* The blocks of a file: the section, the interface, the packets.
Sections(b, ps, link, order) ==
  /\ b[1] = SectionHeader(order)
  /\ b[2] = InterfaceBlock(link, order)
  /\ \A i \in 1..Len(ps) : b[i + 2] = PacketBlock(ps[i], order)

LEMMA PcapngShape ==
  ASSUME NEW ps \in Seq(Frames), NEW link \in LinkTypes, NEW order \in Orders,
         NEW b, b = PcapngBlocks(ps, link, order)
  PROVE  /\ Len(b) = Len(ps) + 2
         /\ AllBytes(b)
         /\ Sections(b, ps, link, order)
<1> DEFINE h == SectionHeader(order)
           k == InterfaceBlock(link, order)
           n == Len(ps)
           r == [i \in 1..n |-> PacketBlock(ps[i], order)]
           a == <<h, k>>
           l == Len(a)
           m == Len(r)
           c == a \o r
<1>1. h \in Seq(Byte) /\ k \in Seq(Byte)
  BY SectionType, InterfaceHolds
<1>2. n \in Nat /\ DOMAIN ps = 1..n
  OBVIOUS
<1>3. \A i \in 1..n : PacketBlock(ps[i], order) \in Seq(Byte)
  <2> SUFFICES ASSUME NEW i \in 1..n PROVE PacketBlock(ps[i], order) \in Seq(Byte)
    OBVIOUS
  <2>1. ps[i] \in Frames
    BY ElementOfSeq
  <2> QED
    BY <2>1, PacketHolds
<1> HIDE DEF h, k
<1>4. b = c
  BY <1>2 DEF PcapngBlocks, h, k
<1>5. r \in Seq(Seq(Byte)) /\ m = n /\ \A i \in 1..n : r[i] = PacketBlock(ps[i], order)
  BY <1>2, <1>3
<1>6. a \in Seq(Seq(Byte)) /\ l = 2 /\ a[1] = h /\ a[2] = k
  BY <1>1
<1> HIDE DEF a, r, n
<1>7. /\ Len(c) = l + m
      /\ \A i \in 1..(l + m) : c[i] = IF i <= l THEN a[i] ELSE r[i - l]
  BY <1>5, <1>6, ConcatProperties
<1> HIDE DEF c, l, m
<1>8. /\ Len(c) = n + 2
      /\ \A i \in 1..(n + 2) : c[i] = IF i <= 2 THEN a[i] ELSE r[i - 2]
  <2>1. l + m = n + 2
    BY <1>2, <1>5, <1>6
  <2> QED
    BY <1>6, <1>7, <2>1
<1>9. c[1] = h /\ c[2] = k
  <2>1. 1 \in 1..(n + 2) /\ 2 \in 1..(n + 2)
    BY <1>2
  <2> QED
    BY <1>6, <1>8, <2>1
<1>10. \A i \in 1..n : c[i + 2] = PacketBlock(ps[i], order)
  <2>1. \A i \in 1..n : i + 2 \in 1..(n + 2) /\ ~(i + 2 <= 2) /\ (i + 2) - 2 = i
    BY <1>2
  <2> QED
    BY <1>5, <1>8, <2>1
<1>11. ASSUME NEW i \in 1..Len(c) PROVE c[i] \in Seq(Byte)
  <2>1. i \in 1..(n + 2)
    BY <1>8
  <2>2. CASE i <= 2
    <3>1. i = 1 \/ i = 2
      BY <1>2, <2>1, <2>2
    <3> QED
      BY <1>1, <1>9, <3>1
  <2>3. CASE ~(i <= 2)
    <3>1. i - 2 \in 1..n
      BY <1>2, <2>1, <2>3
    <3> QED
      BY <1>3, <1>5, <1>8, <2>1, <2>3, <3>1
  <2> QED
    BY <2>2, <2>3
<1> QED
  BY <1>4, <1>8, <1>9, <1>10, <1>11 DEF AllBytes, Sections, h, k, n

\* What the reader of pcapng finds of a file that was cut behind its section header.
FoundBlocks(q, w, o, ps, link, order) ==
  /\ o[2] = 28
  /\ \A i \in 1..(w - 1) :
       /\ WholeBlock(q, o[i + 1], order)
       /\ o[i + 2] = o[i + 1] + Word(q, o[i + 1] + 4, order)
       /\ o[i + 2] # o[i + 1]
       /\ Word(q, o[i + 1], order) = IF i = 1 THEN BLOCK_TYPE_IDB ELSE BLOCK_TYPE_EPB
       /\ i >= 2 => Bytes(q, o[i + 1] + 28, Word(q, o[i + 1] + 20, order)) = ps[i - 1]
  /\ w >= 2 => InOrder(Bytes(q, o[2] + 8, 2), order)[1] = link
  /\ ~WholeBlock(q, o[w + 1], order)

\* A file is read block after block, up to where it was cut off.
LEMMA PcapngFound ==
  ASSUME NEW ps \in Seq(Frames), NEW link \in LinkTypes, NEW order \in Orders,
         NEW b, b = PcapngBlocks(ps, link, order),
         NEW w, NEW part, CutOff(b, Len(ps) + 2, w, part),
         NEW q \in Seq(Byte), NEW o, Layout(q, b, w, part, o)
  PROVE  FoundBlocks(q, w, o, ps, link, order)
<1> DEFINE n == Len(ps)
<1>0. /\ n \in Nat /\ w \in 1..(n + 2) /\ part \in Nat
      /\ part = 0 \/ (w < n + 2 /\ part < Len(b[w + 1]))
  BY DEF CutOff
<1>1. /\ o[1] = 0
      /\ \A i \in 1..w : o[i + 1] = o[i] + Len(b[i]) /\ Holds(q, o[i], b[i])
      /\ \A i \in 1..(w + 1) : o[i] \in Nat
      /\ Len(q) = o[w + 1] + part
      /\ part > 0 => Begins(q, o[w + 1], b[w + 1], part)
  BY DEF Layout
<1>2. \A i \in 1..n : ps[i] \in Frames
  BY ElementOfSeq
<1>s. Sections(b, ps, link, order)
  BY PcapngShape
<1>3. b[1] = SectionHeader(order) /\ b[2] = InterfaceBlock(link, order)
  BY <1>s DEF Sections
<1>4. \A i \in 1..n : b[i + 2] = PacketBlock(ps[i], order)
  BY <1>s DEF Sections
<1> HIDE DEF n
<1>5. o[2] = 28
  <2>1. Len(b[1]) = 28
    BY <1>3, SectionType
  <2>2. 1 \in 1..w /\ 1 + 1 = 2 /\ 0 + 28 = 28
    BY <1>0
  <2>3. o[1 + 1] = o[1] + Len(b[1])
    BY <1>1, <2>2
  <2> QED
    BY <1>1, <2>1, <2>2, <2>3
<1>6. ASSUME w >= 2
      PROVE  /\ WholeBlock(q, o[2], order)
             /\ o[3] = o[2] + Word(q, o[2] + 4, order) /\ o[3] # o[2]
             /\ Word(q, o[2], order) = BLOCK_TYPE_IDB
             /\ InOrder(Bytes(q, o[2] + 8, 2), order)[1] = link
  <2> DEFINE c == b[2]
             p == o[2]
  <2>1. 2 \in 1..w /\ 2 + 1 = 3 /\ 2 \in 1..(w + 1)
    BY <1>0, <1>6
  <2>2. p \in Nat /\ o[3] = p + Len(c) /\ Holds(q, p, c)
    BY <1>1, <2>1
  <2>3. c = InterfaceBlock(link, order)
    BY <1>3
  <2> HIDE DEF c, p
  <2>4. Len(c) = 32
    BY <2>3, InterfaceHolds
  <2>5. /\ WholeBlock(q, p, order) /\ Word(q, p, order) = BLOCK_TYPE_IDB
        /\ Word(q, p + 4, order) = 32
        /\ InOrder(Bytes(q, p + 8, 2), order)[1] = link
    <3>1. InterfaceAt(q, p, link, order)
      BY <2>2, <2>3, InterfaceHolds
    <3> QED
      BY <3>1 DEF InterfaceAt
  <2> QED
    BY <2>2, <2>4, <2>5 DEF p
<1>7. ASSUME NEW i \in 1..(w - 1), i # 1
      PROVE  /\ WholeBlock(q, o[i + 1], order)
             /\ o[i + 2] = o[i + 1] + Word(q, o[i + 1] + 4, order)
             /\ o[i + 2] # o[i + 1]
             /\ Word(q, o[i + 1], order) = BLOCK_TYPE_EPB
             /\ Bytes(q, o[i + 1] + 28, Word(q, o[i + 1] + 20, order)) = ps[i - 1]
  <2> DEFINE c == b[i + 1]
             p == o[i + 1]
             f == ps[i - 1]
  <2>1. i + 1 \in 1..w /\ i + 1 \in 1..(w + 1) /\ (i + 1) + 1 = i + 2 /\ i - 1 \in 1..n /\ (i - 1) + 2 = i + 1
    BY <1>0, <1>7
  <2>2. p \in Nat /\ o[i + 2] = p + Len(c) /\ Holds(q, p, c)
    BY <1>1, <2>1
  <2>3. f \in Frames /\ c = PacketBlock(f, order)
    BY <1>2, <1>4, <2>1
  <2> HIDE DEF c, p, f
  <2>4. Len(c) \in Nat /\ Len(c) > 0
    BY <2>3, PacketHolds
  <2>5. /\ WholeBlock(q, p, order) /\ Word(q, p, order) = BLOCK_TYPE_EPB
        /\ Word(q, p + 4, order) = Len(c)
        /\ Word(q, p + 20, order) = Len(f)
        /\ Bytes(q, p + 28, Len(f)) = f
    <3>1. PacketAt(q, p, f, Len(c), order)
      BY <2>2, <2>3, PacketHolds
    <3> QED
      BY <3>1 DEF PacketAt
  <2>6. Bytes(q, p + 28, Word(q, p + 20, order)) = f
    BY <2>5
  <2>7. o[i + 2] # p
    BY <2>2, <2>4
  <2> QED
    BY <2>2, <2>5, <2>6, <2>7 DEF p, f
<1>8. ~WholeBlock(q, o[w + 1], order)
  <2> DEFINE p == o[w + 1]
             c == b[w + 1]
  <2>1. p \in Nat /\ Len(q) = p + part /\ (part > 0 => Begins(q, p, c, part))
    <3>1. w + 1 \in 1..(w + 1)
      BY <1>0
    <3> QED
      BY <1>1, <3>1
  <2>2. part # 0 => w < n + 2 /\ part < Len(c)
    BY <1>0
  <2> HIDE DEF p, c
  <2>3. CASE part = 0
    <3>1. ~(p + 8 <= Len(q))
      BY <2>1, <2>3
    <3> QED
      BY <3>1 DEF WholeBlock, p
  <2>4. CASE part # 0 /\ w = 1
    <3>1. c = InterfaceBlock(link, order)
      BY <1>3, <2>4 DEF c
    <3>2. part < Len(c)
      BY <2>2, <2>4
    <3>3. NoPartOf(c, order)
      BY <3>1, InterfaceHolds
    <3>4. ~WholeBlock(q, p, order)
      BY <1>0, <2>1, <2>4, <3>2, <3>3 DEF NoPartOf
    <3> QED
      BY <3>4 DEF p
  <2>5. CASE part # 0 /\ w # 1
    <3> DEFINE f == ps[w - 1]
    <3>1. w - 1 \in 1..n /\ (w - 1) + 2 = w + 1
      BY <1>0, <2>2, <2>5
    <3>2. f \in Frames /\ c = PacketBlock(f, order)
      BY <1>2, <1>4, <3>1 DEF c
    <3> HIDE DEF f
    <3>3. part < Len(c)
      BY <2>2, <2>5
    <3>4. NoPartOf(c, order)
      BY <3>2, PacketHolds
    <3>5. ~WholeBlock(q, p, order)
      BY <1>0, <2>1, <2>5, <3>3, <3>4 DEF NoPartOf
    <3> QED
      BY <3>5 DEF p
  <2> QED
    BY <2>3, <2>4, <2>5
<1>9. ASSUME NEW i \in 1..(w - 1)
      PROVE  /\ WholeBlock(q, o[i + 1], order)
             /\ o[i + 2] = o[i + 1] + Word(q, o[i + 1] + 4, order)
             /\ o[i + 2] # o[i + 1]
             /\ Word(q, o[i + 1], order) = IF i = 1 THEN BLOCK_TYPE_IDB ELSE BLOCK_TYPE_EPB
             /\ i >= 2 => Bytes(q, o[i + 1] + 28, Word(q, o[i + 1] + 20, order)) = ps[i - 1]
  <2>1. CASE i = 1
    <3>1. w >= 2 /\ 1 + 1 = 2 /\ 1 + 2 = 3 /\ ~(1 >= 2)
      BY <1>0, <2>1
    <3> QED
      BY <1>6, <2>1, <3>1
  <2>2. CASE i # 1
    BY <1>7, <2>2
  <2> QED
    BY <2>1, <2>2
<1> QED
  BY <1>5, <1>6, <1>8, <1>9 DEF FoundBlocks

\* What is read of it: the packets that are whole, the link type once the interface is, and
\* whether the file ends with a block.
LEMMA PcapngReads ==
  ASSUME NEW ps \in Seq(Frames), NEW link, NEW order \in Orders,
         NEW w \in 1..(Len(ps) + 2), NEW q \in Seq(Byte), NEW o, \A i \in 1..(w + 1) : o[i] \in Nat,
         FoundBlocks(q, w, o, ps, link, order),
         NEW r, r = PcapngBlocksRead(q, order)
  PROVE  /\ r.packets = [i \in 1..(IF w = 1 THEN 0 ELSE w - 2) |-> ps[i]]
         /\ w # 1 => r.link = link
         /\ r.ok = (o[w + 1] = Len(q))
<1> DEFINE n == Len(ps)
           next == PcapngNext(q, order)
           oo == [i \in 1..w |-> o[i + 1]]
           places == Places(next, 28)
           whole == 1..(Len(places) - 1)
           Of(type) == {i \in whole : Word(q, places[i], order) = type}
           Packet(p) == Bytes(q, p + 28, Word(q, p + 20, order))
           s == [i \in whole |-> IF i \in Of(BLOCK_TYPE_EPB) THEN <<Packet(places[i])>> ELSE <<>>]
           first == CHOOSE i \in Of(BLOCK_TYPE_IDB) : \A j \in Of(BLOCK_TYPE_IDB) : i <= j
           k == IF Of(BLOCK_TYPE_IDB) = {} THEN NoLink
                ELSE InOrder(Bytes(q, places[first] + 8, 2), order)[1]
<1>1. n \in Nat /\ w \in Nat /\ w >= 1 /\ w <= n + 2 /\ \A i \in 1..n : ps[i] \in Frames
  BY ElementOfSeq
<1> HIDE DEF n
<1>2. r.packets = FlattenSeq(s) /\ r.link = k /\ r.ok = (Last(places) = Len(q))
  <2>1. r = [packets |-> FlattenSeq(s), link |-> k, ok |-> Last(places) = Len(q)]
    BY DEF PcapngBlocksRead
  <2> DEFINE e == Last(places) = Len(q)
  <2>2. r = [packets |-> FlattenSeq(s), link |-> k, ok |-> e]
    BY <2>1
  <2> HIDE DEF s, k, places, e
  <2>3. r.packets = FlattenSeq(s) /\ r.link = k /\ r.ok = e
    BY <2>2
  <2> QED
    BY <2>3 DEF e
<1> HIDE DEF s, k
<1>3. places = [i \in 1..w |-> oo[i]]
  <2>1. Forward(next, Len(q))
    BY PcapngForward
  <2>2. \A i \in 1..w : oo[i] = o[i + 1] /\ oo[i] \in Nat
    BY <1>1
  <2>3. ASSUME NEW i \in 1..w, i < w PROVE next[oo[i]] = oo[i + 1] /\ oo[i + 1] # oo[i]
    <3>1. i \in 1..(w - 1) /\ i + 1 \in 1..w /\ (i + 1) + 1 = i + 2
      BY <1>1, <2>3
    <3>2. oo[i] = o[i + 1] /\ oo[i + 1] = o[i + 2] /\ o[i + 1] \in Nat
      BY <2>2, <3>1
    <3>3. WholeBlock(q, o[i + 1], order) /\ o[i + 2] = o[i + 1] + Word(q, o[i + 1] + 4, order)
          /\ o[i + 2] # o[i + 1]
      BY <3>1 DEF FoundBlocks
    <3>4. next[o[i + 1]] = o[i + 1] + Word(q, o[i + 1] + 4, order)
      BY <3>2, <3>3 DEF PcapngNext
    <3> HIDE DEF next, oo
    <3> QED
      BY <3>2, <3>3, <3>4
  <2>4. next[oo[w]] = oo[w]
    <3>1. w \in 1..w /\ oo[w] = o[w + 1] /\ o[w + 1] \in Nat
      BY <1>1, <2>2
    <3>2. ~WholeBlock(q, o[w + 1], order)
      BY DEF FoundBlocks
    <3>3. next[o[w + 1]] = o[w + 1]
      BY <3>1, <3>2 DEF PcapngNext
    <3> QED
      BY <3>1, <3>3
  <2>5. oo[1] = 28
    <3>1. 1 \in 1..w /\ 1 + 1 = 2 /\ o[2] = 28
      BY <1>1 DEF FoundBlocks
    <3> QED
      BY <2>2, <3>1
  <2>6. w \in Nat /\ w >= 1 /\ Len(q) \in Nat
    BY <1>1
  <2> HIDE DEF next, oo
  <2>7. Places(next, oo[1]) = [i \in 1..w |-> oo[i]]
    <3>1. Steps(next, oo, w)
      BY <2>2, <2>3, <2>4 DEF Steps
    <3> QED
      BY <2>1, <2>6, <3>1, PlacesAre
  <2> QED
    BY <2>5, <2>7
<1>4. Len(places) = w /\ \A i \in 1..w : places[i] = o[i + 1]
  <2> HIDE DEF places
  <2> QED
    BY <1>1, <1>3
<1>5. Last(places) = o[w + 1]
  <2> HIDE DEF places
  <2>1. w \in 1..w
    BY <1>1
  <2> QED
    BY <1>4, <2>1 DEF Last
<1> HIDE DEF places
<1>6. whole = 1..(w - 1)
  BY <1>4
<1> HIDE DEF whole
<1>7. \A i \in 1..(w - 1) : Word(q, places[i], order) = IF i = 1 THEN BLOCK_TYPE_IDB ELSE BLOCK_TYPE_EPB
  <2>1. \A i \in 1..(w - 1) : places[i] = o[i + 1]
    BY <1>1, <1>4
  <2> QED
    BY <2>1 DEF FoundBlocks
<1>8. BLOCK_TYPE_IDB # BLOCK_TYPE_EPB
  BY Types
<1>9. \A i \in 1..(w - 1) : (i \in Of(BLOCK_TYPE_EPB) <=> i # 1) /\ (i \in Of(BLOCK_TYPE_IDB) <=> i = 1)
  BY <1>6, <1>7, <1>8
<1>10. Of(BLOCK_TYPE_IDB) \subseteq 1..(w - 1)
  BY <1>6
<1>11. s = [i \in 1..(w - 1) |-> IF i = 1 THEN <<>> ELSE <<Packet(places[i])>>]
  <2>1. \A i \in 1..(w - 1) : (IF i \in Of(BLOCK_TYPE_EPB) THEN <<Packet(places[i])>> ELSE <<>>)
                              = (IF i = 1 THEN <<>> ELSE <<Packet(places[i])>>)
    <3> HIDE DEF Of, Packet
    <3> QED
      BY <1>9
  <2> HIDE DEF Of, Packet
  <2> QED
    BY <1>6, <2>1 DEF s
<1> HIDE DEF Of
<1>12. \A j \in 1..(w - 2) : Packet(places[j + 1]) = ps[j] /\ ps[j] \in Frames
  <2> SUFFICES ASSUME NEW j \in 1..(w - 2) PROVE Packet(places[j + 1]) = ps[j] /\ ps[j] \in Frames
    OBVIOUS
  <2>1. j + 1 \in 1..(w - 1) /\ j + 1 \in 1..w /\ j + 1 >= 2 /\ (j + 1) - 1 = j /\ j \in 1..n
    BY <1>1
  <2>2. places[j + 1] = o[(j + 1) + 1]
    BY <1>4, <2>1
  <2>3. Bytes(q, o[(j + 1) + 1] + 28, Word(q, o[(j + 1) + 1] + 20, order)) = ps[(j + 1) - 1]
    BY <2>1 DEF FoundBlocks
  <2> QED
    BY <1>1, <2>1, <2>2, <2>3
<1> HIDE DEF Packet
<1>13. FlattenSeq(s) = [i \in 1..(IF w = 1 THEN 0 ELSE w - 2) |-> ps[i]]
  <2>1. CASE w = 1
    <3>1. 1..(w - 1) = {} /\ 1..0 = {}
      BY <2>1
    <3>2. s = <<>> /\ [i \in 1..0 |-> ps[i]] = <<>>
      <4>1. s = [i \in {} |-> IF i = 1 THEN <<>> ELSE <<Packet(places[i])>>]
        BY <1>11, <3>1
      <4>2. s = <<>>
        BY <4>1
      <4> QED
        BY <3>1, <4>2
    <3>3. FlattenSeq(<<>>) = <<>>
      BY DEF FlattenSeq
    <3> QED
      BY <2>1, <3>2, <3>3
  <2>2. CASE w # 1
    <3> DEFINE m == w - 1
    <3>1. m \in Nat /\ m >= 1 /\ 1 \in 1..m /\ m - 1 = w - 2
      BY <1>1, <2>2
    <3>2. s = [i \in 1..m |-> s[i]]
      BY <1>11
    <3>3. s[1] = <<>>
      BY <1>11, <3>1
    <3>4. \A j \in 1..(m - 1) : ps[j] \in Frames /\ s[j + 1] = <<ps[j]>>
      <4> SUFFICES ASSUME NEW j \in 1..(m - 1) PROVE ps[j] \in Frames /\ s[j + 1] = <<ps[j]>>
        OBVIOUS
      <4>1. j \in 1..(w - 2) /\ j + 1 \in 1..(w - 1) /\ j + 1 # 1
        BY <3>1
      <4> QED
        BY <1>11, <1>12, <4>1
    <3> HIDE DEF m
    <3>o. Ones(s, m, ps, Frames)
      BY <3>2, <3>3, <3>4 DEF Ones
    <3>5. FlattenSeq(s) = [j \in 1..(m - 1) |-> ps[j]]
      BY <3>1, <3>o, FlattenOnes
    <3> QED
      BY <2>2, <3>1, <3>5
  <2> QED
    BY <2>1, <2>2
<1>14. w # 1 => k = link
  <2> SUFFICES ASSUME w # 1 PROVE k = link
    OBVIOUS
  <2>1. 1 \in 1..(w - 1) /\ w >= 2 /\ 1 \in 1..w /\ 1 + 1 = 2
    BY <1>1
  <2>2. Of(BLOCK_TYPE_IDB) = {1}
    BY <1>9, <1>10, <2>1
  <2>3. first = 1
    BY <2>2
  <2>4. k = InOrder(Bytes(q, places[1] + 8, 2), order)[1]
    BY <2>2, <2>3 DEF k
  <2>5. places[1] = o[2]
    BY <1>4, <2>1
  <2>6. InOrder(Bytes(q, o[2] + 8, 2), order)[1] = link
    BY <2>1 DEF FoundBlocks
  <2> QED
    BY <2>4, <2>5, <2>6
<1>15. r.ok = (o[w + 1] = Len(q))
  BY <1>2, <1>5, Zenon
<1> QED
  BY <1>2, <1>13, <1>14, <1>15

\* The byte order magic tells the order the file was written in.
LEMMA PcapngOrder ==
  ASSUME NEW order \in Orders, NEW magic, magic = InOrder(BYTE_ORDER_MAGIC, order)
  PROVE  /\ magic \in {BYTE_ORDER_MAGIC, Reverse(BYTE_ORDER_MAGIC)}
         /\ (IF magic = BYTE_ORDER_MAGIC THEN "little" ELSE "big") = order
<1>1. CASE order = "little"
  <2>1. magic = BYTE_ORDER_MAGIC
    BY <1>1 DEF InOrder
  <2> QED
    BY <1>1, <2>1
<1>2. CASE order = "big"
  <2>1. magic = Reverse(BYTE_ORDER_MAGIC)
    BY <1>2 DEF InOrder
  <2>2. magic # BYTE_ORDER_MAGIC
    BY <2>1, Magics, SMT
  <2> QED
    BY <1>2, <2>1, <2>2
<1> QED
  BY <1>1, <1>2 DEF Orders

\* A pcapng file, cut off anywhere, is read as the packets that are whole.
LEMMA PcapngFile ==
  ASSUME NEW ps \in Seq(Frames), NEW link \in LinkTypes, NEW order \in Orders,
         NEW b, b = PcapngBlocks(ps, link, order), NEW w, NEW part, NEW q,
         FileOf(q, b, Len(ps) + 2, w, part)
  PROVE  /\ ReadsOf(q, ps)
         /\ w = Len(ps) + 2 => ReadsWhole(q, ps, link)
<1> DEFINE n == Len(ps)
<1>1. PICK o : Layout(q, b, w, part, o)
  BY DEF FileOf
<1>2. /\ q \in Seq(Byte) /\ Len(q) \in Nat /\ w \in 0..(n + 2) /\ part \in Nat /\ n \in Nat
      /\ part = 0 \/ (w < n + 2 /\ part < Len(b[w + 1]))
  BY DEF FileOf
<1>3. b[1] = SectionHeader(order) /\ Len(SectionHeader(order)) = 28
  <2>1. Sections(b, ps, link, order)
    BY PcapngShape
  <2>2. b[1] = SectionHeader(order)
    BY <2>1 DEF Sections
  <2> QED
    BY <2>2, SectionType
<1>4. CASE w = 0
  <2>1. Len(q) = part /\ (part > 0 => Begins(q, 0, SectionHeader(order), part))
    <3>1. Len(q) = o[0 + 1] + part /\ o[1] = 0 /\ (part > 0 => Begins(q, o[0 + 1], b[0 + 1], part))
      BY <1>1, <1>4 DEF Layout
    <3>2. o[0 + 1] = 0 /\ b[0 + 1] = SectionHeader(order)
      BY <1>3, <3>1
    <3>3. Len(q) = part
      BY <1>2, <3>1, <3>2
    <3> QED
      BY <3>1, <3>2, <3>3
  <2>2. part < 28
    <3>1. part = 0 \/ part < Len(b[0 + 1])
      BY <1>2, <1>4
    <3>2. Len(b[0 + 1]) = 28
      <4>1. b[0 + 1] = b[1]
        OBVIOUS
      <4> QED
        BY <1>3, <4>1
    <3> QED
      BY <1>2, <3>1, <3>2
  <2>3. CASE part < 24
    <3>1. Len(q) < 24
      BY <2>1, <2>3
    <3>2. Read(q) = Nothing
      BY <1>2, <3>1, ShortFile
    <3> QED
      BY <1>2, <1>4, <3>2, NothingReadsOf
  <2>4. CASE part >= 24
    <3>1. part >= 8 /\ part > 0
      BY <1>2, <2>4
    <3>2. Bytes(q, 0, 4) = BLOCK_TYPE_SHB
      BY <1>2, <2>1, <3>1, SectionBegins
    <3>3. BLOCK_TYPE_SHB \notin {PCAP_MAGIC_USEC, Reverse(PCAP_MAGIC_USEC), PCAP_MAGIC_NSEC, LBN_MAGIC}
      BY Magics, SMT
    <3>4. detect_file_type(q) = "pcapng"
      BY <3>2, <3>3 DEF detect_file_type
    <3>5. PcapngRead(q) = Nothing
      <4>1. Len(q) < 28
        BY <2>1, <2>2
      <4> QED
        BY <4>1 DEF PcapngRead
    <3>6. Read(q) = Nothing
      BY <3>4, <3>5 DEF Read
    <3> QED
      BY <1>2, <1>4, <3>6, NothingReadsOf
  <2> QED
    BY <1>2, <2>3, <2>4
<1>5. CASE w # 0
  <2>1. CutOff(b, Len(ps) + 2, w, part)
    BY <1>2, <1>5 DEF CutOff
  <2>2. w \in 1..(Len(ps) + 2)
    BY <1>2, <1>5
  <2>3. FoundBlocks(q, w, o, ps, link, order)
    <3> HIDE DEF n
    <3> QED
      BY <1>1, <1>2, <2>1, PcapngFound
  <2>4. Len(q) = o[w + 1] + part /\ \A i \in 1..(w + 1) : o[i] \in Nat
    BY <1>1 DEF Layout
  <2>5. Holds(q, 0, SectionHeader(order))
    <3>1. 1 \in 1..w
      BY <2>2
    <3>2. Holds(q, o[1], b[1]) /\ o[1] = 0
      BY <1>1, <3>1 DEF Layout
    <3> QED
      BY <1>3, <3>2
  <2>6. /\ Bytes(q, 0, 4) = BLOCK_TYPE_SHB
        /\ Bytes(q, 8, 4) = InOrder(BYTE_ORDER_MAGIC, order)
        /\ Word(q, 4, order) = 28 /\ Word(q, 24, order) = 28
        /\ Len(q) >= 28
    BY <1>2, <2>5, SectionHolds
  <2> DEFINE magic == Bytes(q, 8, 4)
             r == PcapngBlocksRead(q, order)
  <2>7. /\ magic \in {BYTE_ORDER_MAGIC, Reverse(BYTE_ORDER_MAGIC)}
        /\ (IF magic = BYTE_ORDER_MAGIC THEN "little" ELSE "big") = order
    BY <2>6, PcapngOrder
  <2>8. PcapngRead(q) = r
    <3>1. ~(Len(q) < 28)
      BY <1>2, <2>6
    <3> QED
      BY <2>6, <2>7, <3>1 DEF PcapngRead
  <2>9. detect_file_type(q) = "pcapng"
    <3>1. BLOCK_TYPE_SHB \notin {PCAP_MAGIC_USEC, Reverse(PCAP_MAGIC_USEC), PCAP_MAGIC_NSEC, LBN_MAGIC}
      BY Magics, SMT
    <3> QED
      BY <2>6, <3>1 DEF detect_file_type
  <2>10. Read(q) = r
    BY <2>8, <2>9 DEF Read
  <2> HIDE DEF r, magic
  <2> DEFINE k == IF w = 1 THEN 0 ELSE w - 2
  <2>11. /\ r.packets = [i \in 1..k |-> ps[i]]
         /\ w # 1 => r.link = link
         /\ r.ok = (o[w + 1] = Len(q))
    BY <1>2, <2>2, <2>3, <2>4, PcapngReads DEF r
  <2>12. k \in 0..n
    BY <1>2, <1>5
  <2>13. ReadsOf(q, ps)
    BY <2>10, <2>11, <2>12 DEF ReadsOf
  <2>14. ASSUME w = n + 2 PROVE ReadsWhole(q, ps, link)
    <3>1. k = n /\ w # 1
      BY <1>2, <2>14
    <3>2. [i \in 1..n |-> ps[i]] = ps
      OBVIOUS
    <3>3. r.packets = ps
      BY <2>11, <3>1, <3>2
    <3>4. o[w + 1] = Len(q)
      <4>1. part = 0
        BY <1>2, <2>14
      <4>2. w + 1 \in 1..(w + 1)
        BY <2>2
      <4> QED
        BY <2>4, <4>1, <4>2
    <3>5. r.ok = TRUE
      BY <2>11, <3>4
    <3>6. r.link = link
      BY <2>11, <3>1
    <3> QED
      BY <2>10, <3>3, <3>5, <3>6 DEF ReadsWhole
  <2> QED
    BY <2>13, <2>14
<1> QED
  BY <1>4, <1>5

-----------------------------------------------------------------------------
(* The states of a capture *)

Sniffing == {"loop", "recv", "callback", "print"}
Pcs      == Sniffing \cup {"save", "write", "closed", "stats", "over"}
Outcomes == {"none", "saved", "full", "raised", "interrupted", "killed"}

\* The blocks of a file for the options o and the packets ps.
CountOf(o, ps)  == Len(ps) + (IF o.format = "pcapng" THEN 2 ELSE 1)
BlocksOf(o, ps) == Blocks(o.format, ps, o.link, o.order)

\* What is on disk is a number of whole blocks of the capture, and part of the next one.
Within(f, o, ps) ==
  /\ f = [whole |-> f.whole, part |-> f.part]
  /\ f.whole \in 0..CountOf(o, ps) /\ f.part \in Nat
  /\ f.part = 0 \/ (f.whole < CountOf(o, ps) /\ f.part < Len(BlocksOf(o, ps)[f.whole + 1]))

\* The types of the variables.
TypeOK ==
  /\ opts \in Options
  /\ pc \in Pcs
  /\ handling \in BOOLEAN
  /\ pc = "callback" => frame \in Ours \cup Foreign
  /\ captured \in 0..MaxFrames
  /\ packets \in Seq(Ours)
  /\ written \in Nat
  /\ pending \in Signals \cup {"none"}
  /\ outcome \in Outcomes

\* What was kept was captured.
Kept ==
  /\ Len(packets) <= MaxFrames
  /\ pc # "over" => Len(packets) + (IF pc = "callback" THEN 1 ELSE 0) <= captured

\* Nothing is on disk before saving starts; an open writer has not taken more blocks than
\* there are; the file is whole when the saving is done.
OnDisk ==
  /\ Within(file, opts, packets)
  /\ pc \in Sniffing => file = Upto(0)
  /\ pc = "write" => written \in 0..CountOf(opts, packets) /\ opts.format = "pcapng"
  /\ pc = "closed" => file = Upto(CountOf(opts, packets))
  /\ pc = "stats" /\ outcome = "none" /\ packets # <<>> => file = Upto(CountOf(opts, packets))
  /\ outcome = "saved" => pc = "over"
  /\ outcome = "saved" /\ packets # <<>> => file = Upto(CountOf(opts, packets))

\* The invariant: it does not speak of signals, so it holds wherever they strike.
CapInv == TypeOK /\ Kept /\ OnDisk

-----------------------------------------------------------------------------
(* The file of a capture, in each format modelled *)

\* What was kept can be written: frames, and fewer than 2^32.
LEMMA KeptFrames ==
  ASSUME NEW ps \in Seq(Ours), Len(ps) <= MaxFrames
  PROVE  ps \in Seq(Frames) /\ Len(ps) \in Word32
<1>1. Ours \subseteq Frames
  BY FramesAssumption DEF Frames
<1>2. ps \in Seq(Frames)
  <2>1. \A i \in 1..Len(ps) : ps[i] \in Ours
    BY ElementOfSeq
  <2>2. \A i \in 1..Len(ps) : ps[i] \in Frames
    BY <1>1, <2>1
  <2>3. Len(ps) \in Nat /\ ps = [i \in 1..Len(ps) |-> ps[i]]
    OBVIOUS
  <2> QED
    BY <2>2, <2>3
<1>3. Len(ps) \in Word32
  <2>1. MaxFrames \in Nat /\ MaxFrames \div 65536 < 65536
    BY BoundsAssumption
  <2>2. MaxFrames < 16777216 * 256
    BY <2>1, SMT
  <2> DEFINE n == Len(ps)
  <2>3. n \in Nat /\ n <= MaxFrames
    OBVIOUS
  <2> HIDE DEF n
  <2>4. n \in Word32
    BY <2>1, <2>2, <2>3, SMT DEF Word32
  <2> QED
    BY <2>4 DEF n
<1> QED
  BY <1>2, <1>3

\* The link type of an interface is a byte.
LEMMA OptionsType ==
  ASSUME NEW o \in Options
  PROVE  /\ o.format \in Formats /\ o.order \in Orders
         /\ o.link \in LinkTypes
         /\ o.format \in {"lbn", "lbn compressed"} => o.order = "little"
BY LinksAssumption DEF Options, LinkTypes

\* The packets of a file are a beginning of those of the capture, whether it is loaded or
\* replayed.
LEMMA ReadsPrefix ==
  ASSUME NEW T, NEW ps \in Seq(T), NEW q, ReadsOf(q, ps)
  PROVE  IsPrefix(Load(q).packets, ps) /\ IsPrefix(Iterate(q).packets, ps)
<1>1. PICK k \in 0..Len(ps) : Read(q).packets = [i \in 1..k |-> ps[i]]
  BY DEF ReadsOf
<1> DEFINE s == [i \in 1..k |-> ps[i]]
<1>2. k \in Nat /\ k <= Len(ps) /\ Len(ps) \in Nat
  OBVIOUS
<1>3. s \in Seq(T) /\ Len(s) = k /\ \A i \in 1..k : s[i] = ps[i]
  <2>1. \A i \in 1..k : ps[i] \in T
    <3>1. \A i \in 1..k : i \in 1..Len(ps)
      BY <1>2
    <3> QED
      BY <3>1, ElementOfSeq
  <2> QED
    BY <1>2, <2>1
<1> HIDE DEF s
<1>4. IsPrefix(s, ps)
  <2> DEFINE u == SubSeq(s, 1, k)
             v == SubSeq(ps, 1, k)
  <2>1. u \in Seq(T) /\ Len(u) = k /\ \A i \in 1..k : u[i] = s[i]
    BY <1>2, <1>3
  <2>2. v \in Seq(T) /\ Len(v) = k /\ \A i \in 1..k : v[i] = ps[i]
    BY <1>2
  <2> HIDE DEF u, v
  <2>3. u = v
    BY <1>2, <1>3, <2>1, <2>2, SeqEqual
  <2> QED
    BY <1>2, <1>3, <2>3 DEF IsPrefix, u, v
<1>5. IsPrefix(<<>>, ps)
  <2>1. Len(<<>>) = 0 /\ SubSeq(<<>>, 1, 0) = <<>> /\ SubSeq(ps, 1, 0) = <<>>
    BY SubSeqEmpty
  <2> QED
    BY <1>2, <2>1 DEF IsPrefix
<1>6. Read(q).packets = s
  BY <1>1 DEF s
<1>7. Nothing.packets = <<>>
  BY DEF Nothing
<1>8. Load(q).packets = s \/ Load(q).packets = <<>>
  BY <1>6, <1>7 DEF Load
<1>9. Iterate(q).packets = s
  BY <1>6 DEF Iterate
<1> QED
  BY <1>4, <1>5, <1>8, <1>9

\* A file that is read whole is loaded whole, and replayed without an error.
LEMMA WholeRead ==
  ASSUME NEW q, NEW ps, NEW link, link # NoLink, ReadsWhole(q, ps, link)
  PROVE  /\ Load(q).packets = ps /\ Load(q).link = link
         /\ Iterate(q) = [packets |-> ps, raises |-> FALSE]
<1>1. Read(q).packets = ps /\ Read(q).ok = TRUE /\ Read(q).link = link
  BY DEF ReadsWhole
<1>2. Load(q) = Read(q)
  BY <1>1 DEF Load
<1>3. Iterate(q).packets = ps
  BY <1>1 DEF Iterate
<1>4. Iterate(q) = [packets |-> ps, raises |-> FALSE]
  <2>1. (~Read(q).ok /\ detect_file_type(q) \in {"lightbin", "pcapng"}) = FALSE
    BY <1>1
  <2> QED
    BY <1>1, <2>1 DEF Iterate
<1> QED
  BY <1>1, <1>2, <1>4

\* The blocks of a capture are as many as CountOf, and sequences of bytes.
LEMMA BlocksType ==
  ASSUME NEW o \in Options, NEW ps \in Seq(Frames), Len(ps) \in Word32,
         NEW b, b = BlocksOf(o, ps)
  PROVE  Len(b) = CountOf(o, ps) /\ AllBytes(b)
<1>1. o.format \in Formats /\ o.order \in Orders /\ o.link \in LinkTypes
  BY OptionsType
<1> DEFINE link == o.link
           order == o.order
<1>2. CASE o.format = "pcap"
  <2>1. b = PcapBlocks(ps, link, order)
    BY <1>2 DEF BlocksOf, Blocks
  <2> HIDE DEF link, order
  <2>2. link \in LinkTypes /\ order \in Orders
    BY <1>1 DEF link, order
  <2>4. Trimmed(ps, Held("pcap", ps))
    BY TrimmedHeld
  <2>3. Len(b) = Len(ps) + 1 /\ AllBytes(b)
    BY <2>1, <2>2, <2>4, PcapShape
  <2> QED
    BY <1>2, <2>3 DEF CountOf
<1>3. CASE o.format = "pcapng"
  <2>1. b = PcapngBlocks(ps, link, order)
    BY <1>3 DEF BlocksOf, Blocks
  <2> HIDE DEF link, order
  <2>2. link \in LinkTypes /\ order \in Orders
    BY <1>1 DEF link, order
  <2>3. Len(b) = Len(ps) + 2 /\ AllBytes(b)
    BY <2>1, <2>2, PcapngShape
  <2> QED
    BY <1>3, <2>3 DEF CountOf
<1>4. CASE o.format \in {"lbn", "lbn compressed"}
  <2> DEFINE compressed == o.format = "lbn compressed"
  <2>1. b = LbnBlocks(ps, compressed)
    BY <1>4 DEF BlocksOf, Blocks
  <2>2. compressed \in BOOLEAN
    OBVIOUS
  <2> HIDE DEF compressed
  <2>3. \E header : LbnShaped(b, ps, compressed, header)
    BY <2>1, <2>2, LbnShape
  <2>4. Len(b) = Len(ps) + 1 /\ AllBytes(b)
    BY <2>3 DEF LbnShaped
  <2> QED
    BY <1>4, <2>4 DEF CountOf
<1> QED
  BY <1>1, <1>2, <1>3, <1>4 DEF Formats

\* What is held of frames are as many frames.
LEMMA HeldFrames ==
  ASSUME NEW o, NEW ps \in Seq(Frames)
  PROVE  /\ Held(o.format, ps) \in Seq(Frames)
         /\ Len(Held(o.format, ps)) = Len(ps)
         /\ o.format # "pcap" => Held(o.format, ps) = ps
<1>1. CASE o.format = "pcap"
  BY <1>1, TrimmedHeld DEF Trimmed
<1>2. CASE o.format # "pcap"
  BY <1>2 DEF Held
<1> QED
  BY <1>1, <1>2

\* Read back, in pcap, pcapng and lbn files of either byte order: of any frames, a file that
\* was cut off anywhere is read as the first of them, and a whole one as all of them, each as
\* far as the format keeps it, with their link type where the format has one.
THEOREM BlocksRead ==
  ASSUME NEW o \in Options, NEW ps \in Seq(Frames), Len(ps) \in Word32,
         NEW w, NEW part, NEW q, FileOf(q, BlocksOf(o, ps), CountOf(o, ps), w, part)
  PROVE  /\ ReadsOf(q, Held(o.format, ps))
         /\ w = CountOf(o, ps) /\ ps # <<>> =>
              \E link \in LinkTypes : /\ ReadsWhole(q, Held(o.format, ps), link)
                                      /\ o.format \in {"pcap", "pcapng"} => link = o.link
<1>1. o.format \in Formats /\ o.order \in Orders /\ o.link \in LinkTypes
  BY OptionsType
<1> DEFINE link == o.link
           order == o.order
           b == BlocksOf(o, ps)
           n == Len(ps)
           cs == Held("pcap", ps)
<1>2. CASE o.format = "pcap"
  <2>1. b = PcapBlocks(ps, link, order) /\ CountOf(o, ps) = Len(ps) + 1
    BY <1>2 DEF BlocksOf, Blocks, CountOf
  <2>2. link \in LinkTypes /\ order \in Orders
    BY <1>1
  <2>3. FileOf(q, b, Len(ps) + 1, w, part)
    BY <2>1
  <2>c. Trimmed(ps, cs)
    BY TrimmedHeld
  <2> HIDE DEF link, order, b, cs
  <2>4. ReadsOf(q, cs)
    BY <2>c, <2>1, <2>2, <2>3, PcapFile
  <2>5. w = Len(ps) + 1 /\ ps # <<>> => ReadsWhole(q, cs, link)
    BY <2>c, <2>1, <2>2, <2>3, PcapFile
  <2> QED
    BY <1>2, <2>1, <2>2, <2>4, <2>5 DEF link, cs
<1>3. CASE o.format = "pcapng"
  <2>1. b = PcapngBlocks(ps, link, order) /\ CountOf(o, ps) = Len(ps) + 2
    BY <1>3 DEF BlocksOf, Blocks, CountOf
  <2>2. link \in LinkTypes /\ order \in Orders
    BY <1>1
  <2>3. FileOf(q, b, Len(ps) + 2, w, part)
    BY <2>1
  <2>c. Held(o.format, ps) = ps
    BY <1>3, HeldFrames
  <2> HIDE DEF link, order, b
  <2>4. ReadsOf(q, ps)
    BY <2>1, <2>2, <2>3, PcapngFile
  <2>5. w = Len(ps) + 2 => ReadsWhole(q, ps, link)
    BY <2>1, <2>2, <2>3, PcapngFile
  <2> QED
    BY <2>c, <2>1, <2>2, <2>4, <2>5 DEF link
<1>4. CASE o.format \in {"lbn", "lbn compressed"}
  <2> DEFINE compressed == o.format = "lbn compressed"
  <2>1. b = LbnBlocks(ps, compressed) /\ CountOf(o, ps) = Len(ps) + 1
    BY <1>4 DEF BlocksOf, Blocks, CountOf
  <2>2. compressed \in BOOLEAN
    OBVIOUS
  <2>3. FileOf(q, b, Len(ps) + 1, w, part)
    BY <2>1
  <2> HIDE DEF compressed, b
  <2>4. ReadsOf(q, ps)
    BY <2>1, <2>2, <2>3, LbnFile
  <2>5. w = Len(ps) + 1 => ReadsWhole(q, ps, 1)
    BY <2>1, <2>2, <2>3, LbnFile
  <2>6. 1 \in LinkTypes
    BY DEF LinkTypes
  <2>7. o.format \notin {"pcap", "pcapng"}
    BY <1>4
  <2>8. Held(o.format, ps) = ps
    BY <2>7, HeldFrames
  <2> QED
    BY <2>1, <2>4, <2>5, <2>6, <2>7, <2>8
<1> QED
  BY <1>1, <1>2, <1>3, <1>4 DEF Formats

-----------------------------------------------------------------------------
(* What is on disk *)

\* A file has at least its header.
LEMMA CountNumber ==
  ASSUME NEW T, NEW ps \in Seq(T), NEW o
  PROVE  CountOf(o, ps) \in Nat /\ CountOf(o, ps) >= 1
BY DEF CountOf

\* The blocks of the state are those of its options and packets.
LEMMA StateBlocks ==
  /\ blocks = BlocksOf(opts, packets)
  /\ Count = CountOf(opts, packets)
BY DEF blocks, BlocksOf, Count, CountOf

\* A file that ends with a block.
LEMMA UptoWithin ==
  ASSUME NEW T, NEW ps \in Seq(T), NEW o, NEW k \in 0..CountOf(o, ps)
  PROVE  Within(Upto(k), o, ps)
BY CountNumber DEF Within, Upto

\* A file that ends within a block.
LEMMA CutsWithin ==
  ASSUME opts \in Options, packets \in Seq(Ours), Len(packets) <= MaxFrames,
         NEW k \in 0..Count, NEW f \in Cuts(k)
  PROVE  Within(f, opts, packets)
<1>0. PICK i \in 1..k : \E j \in 0..(Len(blocks[i]) - 1) : f = [whole |-> i - 1, part |-> j]
  BY DEF Cuts
<1>1. PICK j \in 0..(Len(blocks[i]) - 1) : f = [whole |-> i - 1, part |-> j]
  BY <1>0
<1>2. Count = CountOf(opts, packets) /\ Count \in Nat
  BY StateBlocks, CountNumber
<1>3. packets \in Seq(Frames) /\ Len(packets) \in Word32
  BY KeptFrames
<1>4. blocks = BlocksOf(opts, packets) /\ Len(blocks) = Count /\ AllBytes(blocks)
  BY <1>2, <1>3, StateBlocks, BlocksType
<1> HIDE DEF blocks, Count
<1>5. i \in 1..Len(blocks) /\ i - 1 \in 0..Count /\ i - 1 < Count /\ (i - 1) + 1 = i
  BY <1>2, <1>4
<1>6. Len(blocks[i]) \in Nat
  BY <1>4, <1>5 DEF AllBytes
<1>7. j \in Nat /\ j < Len(blocks[i])
  BY <1>6
<1> QED
  BY <1>1, <1>2, <1>4, <1>5, <1>7 DEF Within

\* What is on disk is laid out in blocks.
LEMMA ContentsLayout ==
  ASSUME opts \in Options, packets \in Seq(Ours), Len(packets) <= MaxFrames,
         Within(file, opts, packets)
  PROVE  FileOf(Contents, BlocksOf(opts, packets), CountOf(opts, packets), file.whole, file.part)
<1>1. packets \in Seq(Frames) /\ Len(packets) \in Word32
  BY KeptFrames
<1>2. PICK b : b = BlocksOf(opts, packets)
  OBVIOUS
<1>3. PICK n : n = CountOf(opts, packets)
  OBVIOUS
<1>4. PICK w : w = file.whole
  OBVIOUS
<1>5. PICK part : part = file.part
  OBVIOUS
<1>6. Len(b) = n /\ AllBytes(b)
  BY <1>1, <1>2, <1>3, BlocksType
<1>7. n \in Nat
  BY <1>3, CountNumber
<1>8. w \in 0..n /\ part \in Nat /\ (part = 0 \/ (w < n /\ part < Len(b[w + 1])))
  BY <1>2, <1>3, <1>4, <1>5 DEF Within
<1>9. \A i \in 1..n : b[i] \in Seq(Byte)
  BY <1>6 DEF AllBytes
<1>10. CutAt(b, w, part) \in Seq(Byte) /\ \E o : Layout(CutAt(b, w, part), b, w, part, o)
  BY <1>7, <1>8, <1>9, CutLayout
<1>11. Contents = CutAt(b, w, part)
  BY <1>2, <1>4, <1>5, StateBlocks DEF Contents, CutAt
<1>12. FileOf(Contents, b, n, w, part)
  BY <1>8, <1>10, <1>11 DEF FileOf
<1> QED
  BY <1>2, <1>3, <1>4, <1>5, <1>12

-----------------------------------------------------------------------------
(* The invariant *)

\* A capture begins with no frame.
LEMMA NoFrames == 0 \in 0..MaxFrames
BY BoundsAssumption

\* The types hold in the initial states, and every step keeps them.
LEMMA TypeInit == Init => TypeOK
<1> SUFFICES ASSUME Init PROVE TypeOK
  OBVIOUS
<1>1. opts \in Options /\ pc = "loop" /\ handling = FALSE /\ captured = 0 /\ written = 0
      /\ pending = "none" /\ outcome = "none"
  BY DEF Init
<1>2. packets \in Seq(Ours)
  BY DEF Init
<1>3. captured \in 0..MaxFrames
  BY <1>1, NoFrames
<1> QED
  BY <1>1, <1>2, <1>3 DEF TypeOK, Pcs, Sniffing, Signals, Outcomes

LEMMA TypeStep == TypeOK /\ [Next]_vars => TypeOK'
<1> SUFFICES ASSUME TypeOK, [Next]_vars PROVE TypeOK'
  OBVIOUS
<1> USE DEF TypeOK, Pcs, Sniffing, Outcomes
<1>1. CASE Sniff
  <2>1. CASE Stream
    BY <2>1 DEF Stream, At, Save
  <2>2. CASE RecvTimeout
    BY <2>2 DEF RecvTimeout, At
  <2>3. CASE Recv
    <3>1. captured' \in 0..MaxFrames
      BY <2>3, BoundsAssumption DEF Recv
    <3>2. frame' \in Ours \cup Foreign
      BY <2>3 DEF Recv
    <3> QED
      BY <2>3, <3>1, <3>2 DEF Recv, At
  <2>4. CASE Callback
    <3>1. packets' \in Seq(Ours)
      <4>1. CASE frame \in Foreign
        BY <2>4, <4>1 DEF Callback
      <4>2. CASE frame \notin Foreign
        <5>1. frame \in Ours /\ packets' = Append(packets, frame)
          BY <2>4, <4>2 DEF Callback, At
        <5> QED
          BY <5>1
      <4> QED
        BY <4>1, <4>2
    <3>2. pc' \in {"loop", "print"}
      BY <2>4 DEF Callback
    <3> QED
      BY <2>4, <3>1, <3>2 DEF Callback, At
  <2>5. CASE PacketCallback
    BY <2>5 DEF PacketCallback, At
  <2> QED
    BY <1>1, <2>1, <2>2, <2>3, <2>4, <2>5 DEF Sniff
<1>2. CASE Saving
  <2>1. CASE WriteFile
    BY <2>1 DEF WriteFile, At
  <2>2. CASE Open
    BY <2>2 DEF Open, At
  <2>3. CASE WriteBlock
    BY <2>3 DEF WriteBlock, At
  <2>4. CASE Close
    BY <2>4 DEF Close, At
  <2>5. CASE MarkClosed
    BY <2>5 DEF MarkClosed, At
  <2>6. CASE Finish
    BY <2>6 DEF Finish, At
  <2> QED
    BY <1>2, <2>1, <2>2, <2>3, <2>4, <2>5, <2>6 DEF Saving
<1>3. CASE InterruptRecv
  BY <1>3 DEF InterruptRecv, Save
<1>s. CASE Swallow
  BY <1>s DEF Swallow, capture
<1>4. CASE Interrupt
  <2>1. pc' \in {"over", "stats", "save"} /\ handling' \in BOOLEAN /\ outcome' \in Outcomes
    BY <1>4 DEF Interrupt, Save
  <2> QED
    BY <1>4, <2>1 DEF Interrupt
<1>5. CASE Failures
  <2>1. CASE CallbackRaises
    BY <2>1 DEF CallbackRaises, At
  <2>2. CASE WriteFileFails
    BY <2>2 DEF WriteFileFails, At
  <2>3. CASE WriteBlockFails
    BY <2>3 DEF WriteBlockFails, At
  <2>4. CASE CloseTwice
    BY <2>4 DEF CloseTwice
  <2> QED
    BY <1>5, <2>1, <2>2, <2>3, <2>4 DEF Failures
<1>6. CASE CtrlC
  BY <1>6 DEF CtrlC, capture, Signals
<1>7. CASE PanelStop
  BY <1>7 DEF PanelStop, capture, Signals
<1>8. CASE PanelKill
  BY <1>8 DEF PanelKill
<1>9. CASE \E loop \in 0..2, count \in 0..1 : Replay(loop, count)
  <2>1. /\ captured' = 0 /\ handling' = FALSE
        /\ UNCHANGED <<opts, pc, frame, packets, file, written, outcome, pending>>
    BY <1>9 DEF Replay
  <2> QED
    BY <2>1, NoFrames
<1>10. CASE ReplayStep \/ RequestStop
  BY <1>10 DEF ReplayStep, RequestStop, capture
<1>11. CASE UNCHANGED vars
  BY <1>11 DEF vars, capture
<1> QED
  BY <1>1, <1>2, <1>3, <1>s, <1>4, <1>5, <1>6, <1>7, <1>8, <1>9, <1>10, <1>11 DEF Next, Main

\* So it is with the frames that were kept ...
LEMMA KeptInit == Init => Kept
BY NoFrames DEF Init, Kept

LEMMA KeptStep == TypeOK /\ Kept /\ [Next]_vars => Kept'
<1> SUFFICES ASSUME TypeOK, Kept, [Next]_vars PROVE Kept'
  OBVIOUS
<1>0. /\ packets \in Seq(Ours) /\ Len(packets) \in Nat /\ Len(packets) <= MaxFrames
      /\ captured \in Nat /\ captured <= MaxFrames /\ MaxFrames \in Nat
  <2>1. packets \in Seq(Ours) /\ captured \in 0..MaxFrames /\ Len(packets) <= MaxFrames
    BY DEF TypeOK, Kept
  <2>2. MaxFrames \in Nat
    BY BoundsAssumption
  <2> QED
    BY <2>1, <2>2
\* Everything else keeps the packets and the count, and does not begin a frame.
<1>a. ASSUME UNCHANGED <<packets, captured>>, pc' # "callback" \/ pc = "callback", pc' = "over" \/ pc # "over"
      PROVE  Kept'
  <2>1. Len(packets) <= captured \/ pc = "over"
    BY <1>0 DEF Kept
  <2>2. pc' = "callback" => pc = "callback" /\ Len(packets) + 1 <= captured
    BY <1>a DEF Kept
  <2> QED
    BY <1>0, <1>a, <2>1, <2>2 DEF Kept
<1>1. CASE Sniff
  <2>1. CASE Stream
    BY <1>a, <2>1 DEF Stream, At, Save
  <2>2. CASE RecvTimeout
    BY <1>a, <2>2 DEF RecvTimeout, At
  <2>3. CASE Recv
    <3>1. pc = "recv" /\ captured' = captured + 1 /\ packets' = packets /\ pc' = "callback"
      BY <2>3 DEF Recv, At
    <3>2. Len(packets) <= captured
      BY <1>0, <3>1 DEF Kept
    <3> QED
      BY <1>0, <3>1, <3>2 DEF Kept
  <2>4. CASE Callback
    <3>1. pc = "callback" /\ captured' = captured /\ pc' \in {"loop", "print"}
          /\ (packets' = packets \/ packets' = Append(packets, frame))
      BY <2>4 DEF Callback, At
    <3>2. Len(packets) + 1 <= captured
      BY <3>1 DEF Kept
    <3>3. Len(packets') = Len(packets) \/ Len(packets') = Len(packets) + 1
      BY <1>0, <3>1
    <3>4. Len(packets') <= captured'
      BY <1>0, <3>1, <3>2, <3>3
    <3>5. Len(packets') \in Nat /\ Len(packets') <= MaxFrames /\ pc' # "callback"
      BY <1>0, <3>1, <3>3, <3>4
    <3> QED
      BY <3>4, <3>5 DEF Kept
  <2>5. CASE PacketCallback
    BY <1>a, <2>5 DEF PacketCallback, At
  <2> QED
    BY <1>1, <2>1, <2>2, <2>3, <2>4, <2>5 DEF Sniff
<1>2. CASE Saving
  <2>1. UNCHANGED <<packets, captured>> /\ pc' # "callback" /\ pc # "over"
    BY <1>2 DEF Saving, WriteFile, Open, WriteBlock, Close, MarkClosed, Finish, At
  <2> QED
    BY <1>a, <2>1
<1>3. CASE InterruptRecv
  BY <1>a, <1>3 DEF InterruptRecv, Save
<1>s. CASE Swallow
  BY <1>a, <1>s DEF Swallow, capture
<1>4. CASE Interrupt
  BY <1>a, <1>4 DEF Interrupt, Save, Over
<1>5. CASE Failures
  <2>1. UNCHANGED <<packets, captured>> /\ pc' \in {"over", "stats"} /\ pc # "over"
    BY <1>5 DEF Failures, CallbackRaises, WriteFileFails, WriteBlockFails, CloseTwice, At
  <2> QED
    BY <1>a, <2>1
<1>6. CASE CtrlC \/ PanelStop
  BY <1>a, <1>6 DEF CtrlC, PanelStop, capture, Over
<1>7. CASE PanelKill
  BY <1>a, <1>7 DEF PanelKill, Over
<1>8. CASE \E loop \in 0..2, count \in 0..1 : Replay(loop, count)
  <2>1. packets' = packets /\ pc' = "over"
    BY <1>8 DEF Replay, Over
  <2> QED
    BY <1>0, <2>1 DEF Kept
<1>9. CASE ReplayStep \/ RequestStop
  <2>1. UNCHANGED <<packets, captured, pc>>
    BY <1>9 DEF ReplayStep, RequestStop, capture
  <2> QED
    BY <2>1 DEF Kept
<1>10. CASE UNCHANGED vars
  <2>1. UNCHANGED <<packets, captured, pc>>
    BY <1>10 DEF vars, capture
  <2> QED
    BY <2>1 DEF Kept
<1> QED
  BY <1>1, <1>2, <1>3, <1>s, <1>4, <1>5, <1>6, <1>7, <1>8, <1>9, <1>10 DEF Next, Main

\* ... and with what is on disk.
LEMMA OnDiskInit == Init => OnDisk
<1> SUFFICES ASSUME Init PROVE OnDisk
  OBVIOUS
<1>1. packets = <<>> /\ packets \in Seq(Ours) /\ file = Upto(0) /\ pc = "loop" /\ outcome = "none"
  BY DEF Init
<1>2. 0 \in 0..CountOf(opts, packets)
  <2>1. CountOf(opts, packets) \in Nat
    BY <1>1, CountNumber
  <2> QED
    BY <2>1
<1>3. Within(file, opts, packets)
  BY <1>1, <1>2, UptoWithin
<1> QED
  BY <1>1, <1>3 DEF OnDisk

LEMMA OnDiskStep == CapInv /\ [Next]_vars => OnDisk'
<1> SUFFICES ASSUME CapInv, [Next]_vars PROVE OnDisk'
  OBVIOUS
<1>0. /\ opts \in Options /\ packets \in Seq(Ours) /\ Len(packets) <= MaxFrames
      /\ pc \in Pcs /\ pending \in Signals \cup {"none"}
      /\ OnDisk
  BY DEF CapInv, TypeOK, Kept
<1> DEFINE k == CountOf(opts, packets)
<1>1. k \in Nat /\ k >= 1 /\ Count = k
  BY <1>0, CountNumber, StateBlocks
<1>2. /\ Within(file, opts, packets)
      /\ pc \in Sniffing => file = Upto(0)
      /\ pc = "write" => written \in 0..k /\ opts.format = "pcapng"
      /\ pc = "closed" => file = Upto(k)
      /\ pc = "stats" /\ outcome = "none" /\ packets # <<>> => file = Upto(k)
      /\ outcome = "saved" => pc = "over"
      /\ outcome = "saved" /\ packets # <<>> => file = Upto(k)
  BY <1>0 DEF OnDisk
<1>3. \A n \in 0..k : Within(Upto(n), opts, packets)
  BY <1>0, UptoWithin
<1>4. ASSUME NEW n \in 0..k, NEW f \in Cuts(n) PROVE Within(f, opts, packets)
  BY <1>0, <1>1, <1>4, CutsWithin
<1> USE DEF Sniffing
\* A step that leaves the capture alone.
<1>a. ASSUME UNCHANGED <<opts, packets, file, pc, written, outcome>> PROVE OnDisk'
  BY <1>0, <1>a DEF OnDisk
<1>b. ASSUME opts' = opts, packets' = packets,
             Within(file', opts, packets),
             pc' \in Sniffing => file' = Upto(0),
             pc' = "write" => written' \in 0..k /\ opts.format = "pcapng",
             pc' = "closed" => file' = Upto(k),
             pc' = "stats" /\ outcome' = "none" /\ packets # <<>> => file' = Upto(k),
             outcome' = "saved" => pc' = "over",
             outcome' = "saved" /\ packets # <<>> => file' = Upto(k)
      PROVE  OnDisk'
  <2>1. CountOf(opts, packets)' = k
    BY <1>b
  <2>2. Within(file, opts, packets)' 
    BY <1>b
  <2> HIDE DEF k
  <2> QED
    BY <1>b, <2>1, <2>2 DEF OnDisk
<1> HIDE DEF k
<1>5. CASE Sniff
  <2>1. CASE Stream
    BY <1>2, <1>b, <2>1 DEF Stream, At, Save
  <2>2. CASE RecvTimeout
    BY <1>2, <1>b, <2>2 DEF RecvTimeout, At
  <2>3. CASE Recv
    BY <1>2, <1>b, <2>3 DEF Recv, At
  <2>4. CASE Callback
    <3>1. /\ pc = "callback" /\ opts' = opts /\ pc' \in {"loop", "print"} /\ file' = Upto(0)
          /\ outcome' # "saved"
      BY <1>2, <2>4 DEF Callback, At
    <3>2. packets' \in Seq(Ours)
      <4>1. TypeOK'
        BY TypeStep DEF CapInv
      <4> QED
        BY <4>1 DEF TypeOK
    <3>3. PICK o : o = opts'
      OBVIOUS
    <3>5. PICK ps \in Seq(Ours) : ps = packets'
      BY <3>2
    <3>4. Within(file, opts, packets)'
      <4>1. CountOf(o, ps) \in Nat
        BY CountNumber
      <4>2. 0 \in 0..CountOf(o, ps)
        BY <4>1
      <4>3. Within(Upto(0), o, ps)
        BY <4>2, UptoWithin
      <4> QED
        BY <3>1, <3>3, <3>5, <4>3
    <3> QED
      BY <3>1, <3>4 DEF OnDisk
  <2>5. CASE PacketCallback
    BY <1>2, <1>b, <2>5 DEF PacketCallback, At
  <2> QED
    BY <1>5, <2>1, <2>2, <2>3, <2>4, <2>5 DEF Sniff
<1>6. CASE Saving
  <2>0. 0 \in 0..k /\ k \in 0..k
    BY <1>1
  <2>1. CASE WriteFile
    <3>1. Within(file', opts, packets)
      BY <1>1, <1>3, <2>0, <2>1 DEF WriteFile
    <3> QED
      BY <1>1, <1>2, <1>b, <2>1, <3>1 DEF WriteFile, At
  <2>2. CASE Open
    <3>1. Within(file', opts, packets) /\ written' \in 0..k
      BY <1>1, <1>3, <2>0, <2>2 DEF Open
    <3> QED
      BY <1>2, <1>b, <2>2, <3>1 DEF Open, At
  <2>3. CASE WriteBlock
    <3>1. written' \in 0..k
      BY <1>1, <1>2, <2>3 DEF WriteBlock, At
    <3> QED
      BY <1>2, <1>b, <2>3, <3>1 DEF WriteBlock, At
  <2>4. CASE Close
    <3>1. Within(file', opts, packets)
      BY <1>1, <1>3, <2>0, <2>4 DEF Close
    <3> QED
      BY <1>1, <1>2, <1>b, <2>4, <3>1 DEF Close, At
  <2>5. CASE MarkClosed
    BY <1>2, <1>b, <2>5 DEF MarkClosed, At
  <2>6. CASE Finish
    BY <1>2, <1>b, <2>6 DEF Finish, At
  <2> QED
    BY <1>6, <2>1, <2>2, <2>3, <2>4, <2>5, <2>6 DEF Saving
<1>7. CASE InterruptRecv
  BY <1>2, <1>b, <1>7 DEF InterruptRecv, Save
<1>8. CASE Interrupt
  <2>1. opts' = opts /\ packets' = packets /\ pc # "over" /\ pending \in Signals
    BY <1>0, <1>8 DEF Interrupt, Over
  <2>2. file' = IF pc = "write" THEN Upto(written) ELSE file
    BY <1>8 DEF Interrupt
  <2>3. Within(file', opts, packets)
    BY <1>2, <1>3, <2>2
  <2>4. CASE handling
    <3>1. pc' = "over"
          /\ outcome' = CASE outcome # "none" -> outcome
                          [] outcome = "none" /\ (pc = "stats" \/ ~handling) -> "saved"
                          [] OTHER -> "interrupted"
      BY <1>8, <2>4 DEF Interrupt
    <3>2. outcome' = "saved" => outcome = "none" /\ pc = "stats"
      BY <1>2, <2>1, <2>4, <3>1
    <3> QED
      BY <1>2, <1>b, <2>1, <2>2, <2>3, <3>1, <3>2
  <2>5. CASE ~handling
    <3>1. pc' = Save /\ outcome' = outcome
      BY <1>8, <2>1, <2>5 DEF Interrupt, Handled
    <3> QED
      BY <1>2, <1>b, <2>1, <2>2, <2>3, <3>1 DEF Save
  <2> QED
    BY <2>4, <2>5
<1>9. CASE Failures
  <2>1. CASE CallbackRaises
    BY <1>2, <1>b, <2>1 DEF CallbackRaises, At
  <2>2. CASE WriteFileFails
    <3>1. Within(file', opts, packets)
      <4>1. k \in 0..k /\ file' \in Cuts(k)
        BY <1>1, <2>2 DEF WriteFileFails
      <4> QED
        BY <1>4, <4>1
    <3> QED
      BY <1>2, <1>b, <2>2, <3>1 DEF WriteFileFails, At
  <2>3. CASE WriteBlockFails
    <3>1. Within(file', opts, packets)
      <4>1. written \in 0..k /\ file' \in Cuts(written)
        BY <1>2, <2>3 DEF WriteBlockFails, At
      <4> QED
        BY <1>4, <4>1
    <3> QED
      BY <1>2, <1>b, <2>3, <3>1 DEF WriteBlockFails, At
  <2>4. CASE CloseTwice
    BY <1>2, <1>b, <2>4 DEF CloseTwice
  <2> QED
    BY <1>9, <2>1, <2>2, <2>3, <2>4 DEF Failures
<1>10. CASE Swallow \/ CtrlC \/ PanelStop
  BY <1>a, <1>10 DEF Swallow, CtrlC, PanelStop, capture
<1>11. CASE PanelKill
  <2>1. opts' = opts /\ packets' = packets /\ pc' = "over" /\ outcome' = "killed"
    BY <1>11 DEF PanelKill
  <2>2. file' \in CASE pc = "save" /\ opts.format # "pcapng" -> {file, Upto(k)} \cup Cuts(k)
                    [] pc = "write" -> {Upto(written)} \cup Cuts(written)
                    [] OTHER -> {file}
    BY <1>1, <1>11 DEF PanelKill
  <2>3. Within(file', opts, packets)
    <3>1. CASE file' = file
      BY <1>2, <3>1
    <3>2. CASE file' = Upto(k)
      BY <1>1, <1>3, <3>2
    <3>3. CASE file' \in Cuts(k)
      BY <1>1, <1>4, <3>3
    <3>4. CASE pc = "write" /\ file' \in {Upto(written)} \cup Cuts(written)
      <4>1. written \in 0..k
        BY <1>2, <3>4
      <4> QED
        BY <1>3, <1>4, <3>4, <4>1
    <3> QED
      BY <2>2, <3>1, <3>2, <3>3, <3>4
  <2> QED
    BY <1>b, <2>1, <2>3
<1>12. CASE \E loop \in 0..2, count \in 0..1 : Replay(loop, count)
  BY <1>a, <1>12 DEF Replay
<1>13. CASE ReplayStep \/ RequestStop
  BY <1>a, <1>13 DEF ReplayStep, RequestStop, capture
<1>14. CASE UNCHANGED vars
  BY <1>a, <1>14 DEF vars, capture
<1> QED
  BY <1>5, <1>6, <1>7, <1>8, <1>9, <1>10, <1>11, <1>12, <1>13, <1>14 DEF Next, Main

\* Wherever a signal, a kill or a full disk strikes: what is on disk is whole blocks of what
\* was kept and part of the next one, and all of it once the outcome is "saved".
THEOREM CapInvHolds == Spec => []CapInv
<1>1. Init => CapInv
  BY TypeInit, KeptInit, OnDiskInit DEF CapInv
<1>2. CapInv /\ [Next]_vars => CapInv'
  <2> SUFFICES ASSUME CapInv, [Next]_vars PROVE CapInv'
    OBVIOUS
  <2>1. TypeOK'
    BY TypeStep DEF CapInv
  <2>2. Kept'
    BY KeptStep DEF CapInv
  <2>3. OnDisk'
    BY OnDiskStep
  <2> QED
    BY <2>1, <2>2, <2>3 DEF CapInv
<1> QED
  BY <1>1, <1>2, PTL DEF Spec

\* Whatever cut the file short, LightSniff -r and replay find a beginning of what was
\* captured, each packet as far as its format keeps it: none is made up, repeated or skipped.
THEOREM CutIsPrefixHolds == Spec => []CutIsPrefix
<1>1. CapInv => CutIsPrefix
  <2> SUFFICES ASSUME CapInv PROVE CutIsPrefix
    OBVIOUS
  <2>1. /\ opts \in Options /\ packets \in Seq(Ours) /\ Len(packets) <= MaxFrames
        /\ Within(file, opts, packets)
    BY DEF CapInv, TypeOK, Kept, OnDisk
  <2>2. packets \in Seq(Frames) /\ Len(packets) \in Word32
    BY <2>1, KeptFrames
  <2>3. FileOf(Contents, BlocksOf(opts, packets), CountOf(opts, packets), file.whole, file.part)
    BY <2>1, ContentsLayout
  <2> DEFINE held == Held(opts.format, packets)
  <2>4. ReadsOf(Contents, held)
    BY <2>1, <2>2, <2>3, BlocksRead
  <2>6. held \in Seq(Frames)
    BY <2>2, HeldFrames
  <2>5. IsPrefix(Load(Contents).packets, held) /\ IsPrefix(Iterate(Contents).packets, held)
    <3> HIDE DEF held
    <3> QED
      BY <2>4, <2>6, ReadsPrefix
  <2> QED
    BY <2>5 DEF CutIsPrefix
<1> QED
  BY <1>1, CapInvHolds, PTL

\* A capture that ended by itself, by -c or by one signal reads back as the packets it
\* kept, each as far as its format keeps it, by either reader, with its link type where the
\* format has one.
THEOREM SavedIsReadHolds == Spec => []SavedIsRead
<1>1. CapInv => SavedIsRead
  <2> SUFFICES ASSUME CapInv, outcome = "saved", packets # <<>>
               PROVE  /\ Load(Contents).packets = Held(opts.format, packets)
                      /\ Iterate(Contents) = [packets |-> Held(opts.format, packets),
                                              raises |-> FALSE]
                      /\ opts.format \in {"pcap", "pcapng"} => Load(Contents).link = opts.link
    BY DEF SavedIsRead
  <2>1. /\ opts \in Options /\ packets \in Seq(Ours) /\ Len(packets) <= MaxFrames
        /\ Within(file, opts, packets)
        /\ file = Upto(CountOf(opts, packets))
    BY DEF CapInv, TypeOK, Kept, OnDisk
  <2>2. packets \in Seq(Frames) /\ Len(packets) \in Word32
    BY <2>1, KeptFrames
  <2>3. FileOf(Contents, BlocksOf(opts, packets), CountOf(opts, packets), file.whole, file.part)
    BY <2>1, ContentsLayout
  <2>4. file.whole = CountOf(opts, packets)
    BY <2>1 DEF Upto
  <2> DEFINE held == Held(opts.format, packets)
  <2>5. PICK link \in 1..255 : /\ ReadsWhole(Contents, held, link)
                               /\ opts.format \in {"pcap", "pcapng"} => link = opts.link
    <3>1. \E link \in LinkTypes : /\ ReadsWhole(Contents, held, link)
                                  /\ opts.format \in {"pcap", "pcapng"} => link = opts.link
      BY <2>1, <2>2, <2>3, <2>4, BlocksRead
    <3> QED
      BY <3>1 DEF LinkTypes
  <2>6. link # NoLink
    BY LinkNumber DEF LinkTypes
  <2>7. /\ Load(Contents).packets = held /\ Load(Contents).link = link
        /\ Iterate(Contents) = [packets |-> held, raises |-> FALSE]
    <3> HIDE DEF held
    <3> QED
      BY <2>5, <2>6, WholeRead
  <2> QED
    BY <2>5, <2>7
<1> QED
  BY <1>1, CapInvHolds, PTL
=============================================================================
