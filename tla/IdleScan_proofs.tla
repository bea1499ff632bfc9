--------------------------- MODULE IdleScan_proofs ---------------------------
(***************************************************************************)
(* Theorems about IdleScan, for any set of scans, addresses, zombies,      *)
(* ports, faults and any number of threads.  The first part is about the   *)
(* split of the ports over the zombies, which is made of FlattenSeq; the   *)
(* last one counts the packets a zombie may still send, on which it hangs  *)
(* that an open port is not taken for closed.                              *)
(***************************************************************************)
EXTENDS IdleScan, TargetResults_proofs

-----------------------------------------------------------------------------
(* The split of the ports over the zombies *)

\* With M ports and L zombies: where the slice of the i-th zombie starts and stops.
Start(i, L, M) == (i - 1) * (M \div L)
Stop(i, L, M)  == IF i < L THEN i * (M \div L) ELSE M

\* The slices lie one behind the other and leave no port out.
LEMMA SliceBounds ==
  ASSUME NEW L \in Nat \ {0}, NEW M \in Nat
  PROVE  /\ \A i \in 1..L : /\ Start(i, L, M) \in Nat /\ Stop(i, L, M) \in Nat
                            /\ Start(i, L, M) <= Stop(i, L, M) /\ Stop(i, L, M) <= M
         /\ \A i, j \in 1..L : i < j => Stop(i, L, M) <= Start(j, L, M)
         /\ \A p \in 1..M : \E i \in 1..L : Start(i, L, M) < p /\ p <= Stop(i, L, M)
<1> DEFINE per == M \div L
<1>1. per \in Nat /\ L * per <= M
  <2> DEFINE rest == M % L
  <2>1. M = L * per + rest /\ rest \in 0..(L - 1) /\ per \in Int
    OBVIOUS
  <2> HIDE DEF per, rest
  <2>2. per >= 0
    <3>1. SUFFICES ASSUME per <= -1 PROVE FALSE
      BY <2>1
    <3>2. L * per <= -L
      BY <2>1, <3>1
    <3> QED
      BY <2>1, <3>2
  <2>3. L * per \in Int /\ L * per <= M
    BY <2>1
  <2> QED
    BY <2>1, <2>2, <2>3
<1>2. \A i : Start(i, L, M) = (i - 1) * per /\ Stop(i, L, M) = IF i < L THEN i * per ELSE M
  BY DEF Start, Stop
<1> HIDE DEF per
<1>3. \A a, b \in Nat : a <= b => a * per \in Nat /\ a * per <= b * per
  <2> SUFFICES ASSUME NEW a \in Nat, NEW b \in Nat, a <= b
               PROVE  a * per \in Nat /\ a * per <= b * per
    OBVIOUS
  <2> DEFINE d == b - a
  <2>1. d \in Nat /\ b = a + d
    OBVIOUS
  <2> HIDE DEF d
  <2>2. b * per = a * per + d * per
    BY <1>1, <2>1
  <2>3. a * per \in Nat /\ d * per \in Nat
    BY <1>1, <2>1
  <2> QED
    BY <2>2, <2>3
<1>4. ASSUME NEW i \in 1..L
      PROVE  /\ Start(i, L, M) \in Nat /\ Stop(i, L, M) \in Nat
             /\ Start(i, L, M) <= Stop(i, L, M) /\ Stop(i, L, M) <= M
  <2>1. i - 1 \in Nat /\ i \in Nat /\ L \in Nat /\ i - 1 <= i /\ i <= L /\ i - 1 <= L
    OBVIOUS
  <2> DEFINE x == (i - 1) * per
             y == i * per
             z == L * per
  <2>2. x \in Nat /\ y \in Nat /\ x <= y /\ y <= z /\ z \in Nat /\ z <= M
    BY <1>1, <1>3, <2>1
  <2>3. Start(i, L, M) = x /\ Stop(i, L, M) = IF i < L THEN y ELSE M
    BY <1>2
  <2> HIDE DEF x, y, z
  <2> QED
    BY <2>2, <2>3
<1>5. ASSUME NEW i \in 1..L, NEW j \in 1..L, i < j
      PROVE  Stop(i, L, M) <= Start(j, L, M)
  <2>1. i \in Nat /\ j - 1 \in Nat /\ i <= j - 1 /\ i < L
    BY <1>5
  <2> QED
    BY <1>2, <1>3, <2>1
<1>6. ASSUME NEW p \in 1..M
      PROVE  \E i \in 1..L : Start(i, L, M) < p /\ p <= Stop(i, L, M)
  <2> DEFINE K == {i \in 1..L : p <= Stop(i, L, M)}
  <2>1. L \in K
    BY <1>2
  <2>2. K \in SUBSET Nat /\ IsFiniteSet(K)
    <3>1. IsFiniteSet(1..L) /\ 1..L \subseteq Nat
      BY FS_Interval
    <3> QED
      BY <3>1, FS_Subset
  <2>3. PICK i \in K : \A j \in K : i <= j
    BY <2>1, <2>2, LeastElement
  <2>4. i \in 1..L /\ p <= Stop(i, L, M)
    BY <2>3
  <2>5. CASE i = 1
    <3>1. Start(i, L, M) = 0
      BY <1>1, <1>2, <2>5
    <3> QED
      BY <2>4, <3>1
  <2>6. CASE i # 1
    <3>1. i - 1 \in 1..L /\ i - 1 < L /\ ~(i <= i - 1)
      BY <2>4, <2>6
    <3>2. ~(p <= Stop(i - 1, L, M))
      BY <2>3, <3>1
    <3>3. Stop(i - 1, L, M) = Start(i, L, M) /\ Start(i, L, M) \in Nat
      BY <1>2, <1>4, <2>4, <3>1
    <3> QED
      BY <2>4, <3>2, <3>3
  <2> QED
    BY <2>5, <2>6
<1> QED
  BY <1>4, <1>5, <1>6

LEMMA SliceElements ==
  ASSUME NEW ports \in Seq(Ports), NEW good \in Seq(Zombies), NEW i \in DOMAIN good
  PROVE  LET s == Slice(i, good, ports)
             first == Start(i, Len(good), Len(ports))
         IN  /\ Len(good) \in Nat \ {0} /\ DOMAIN good = 1..Len(good)
             /\ s \in Seq(Ports) /\ DOMAIN s = 1 .. Stop(i, Len(good), Len(ports)) - first
             /\ \A x \in DOMAIN s : /\ first + x \in 1..Len(ports) /\ s[x] = ports[first + x]
                                    /\ first + x <= Stop(i, Len(good), Len(ports))
<1> DEFINE L == Len(good)
           M == Len(ports)
           a == Start(i, L, M)
           b == Stop(i, L, M)
           s == Slice(i, good, ports)
<1>1. L \in Nat \ {0} /\ M \in Nat /\ i \in 1..L /\ DOMAIN good = 1..L
  <2>1. L \in Nat /\ M \in Nat /\ DOMAIN good = 1..L
    OBVIOUS
  <2> HIDE DEF L, M
  <2> QED
    BY <2>1
<1>2. a \in Nat /\ b \in Nat /\ a <= b /\ b <= M
  BY <1>1, SliceBounds
<1>3. s = SubSeq(ports, a + 1, b)
  BY DEF Slice, Start, Stop
<1>4. \A p \in 1..M : ports[p] \in Ports
  OBVIOUS
<1> HIDE DEF L, M, a, b, s
<1>5. a + 1 \in Int /\ b \in Int /\ \A p \in (a + 1)..b : ports[p] \in Ports
  BY <1>1, <1>2, <1>4
<1>6. /\ s \in Seq(Ports)
      /\ Len(s) = IF a + 1 <= b THEN b - (a + 1) + 1 ELSE 0
      /\ \A x \in 1 .. b - (a + 1) + 1 : s[x] = ports[(a + 1) + x - 1]
  BY <1>3, <1>5, SubSeqProperties
<1>7. DOMAIN s = 1 .. b - a /\ b - (a + 1) + 1 = b - a
  BY <1>2, <1>6
<1>8. ASSUME NEW x \in 1 .. b - a
      PROVE  a + x \in 1..M /\ s[x] = ports[a + x] /\ a + x <= b
  <2>1. (a + 1) + x - 1 = a + x /\ a + x \in 1..M /\ a + x <= b
    BY <1>1, <1>2
  <2> QED
    BY <1>6, <1>7, <2>1
<1> QED
  BY <1>1, <1>6, <1>7, <1>8 DEF L, M, a, b, s

LEMMA LastPlaceType ==
  ASSUME NEW good \in Seq(Zombies), NEW i \in DOMAIN good
  PROVE  /\ LastPlace(good, good[i]) \in DOMAIN good
         /\ good[LastPlace(good, good[i])] = good[i]
         /\ NoTwice(good) => LastPlace(good, good[i]) = i
<1> DEFINE L == Len(good)
           K == {k \in 0..L : L - k \in DOMAIN good /\ good[L - k] = good[i]}
<1>1. L \in Nat /\ DOMAIN good = 1..L
  OBVIOUS
<1> HIDE DEF L
<1>2. K \in SUBSET Nat /\ IsFiniteSet(K)
  <2>1. IsFiniteSet(0..L) /\ 0..L \subseteq Nat
    BY <1>1, FS_Interval
  <2> QED
    BY <2>1, FS_Subset
<1>3. L - i \in K
  <2>1. L - i \in 0..L /\ L - (L - i) = i
    BY <1>1
  <2> QED
    BY <2>1
<1>4. PICK k \in K : \A j \in K : k <= j
  BY <1>2, <1>3, LeastElement
<1> DEFINE l == L - k
<1>5. l \in DOMAIN good /\ good[l] = good[i] /\ k \in 0..L
  BY <1>4
<1>6. ASSUME NEW j \in DOMAIN good, good[j] = good[i] PROVE j <= l
  <2>1. L - j \in 0..L /\ L - (L - j) = j
    BY <1>1
  <2>2. L - j \in K
    BY <1>6, <2>1
  <2>3. k <= L - j
    BY <1>4, <2>2
  <2> QED
    BY <1>1, <1>5, <2>3
<1> HIDE DEF l
<1>7. \E n \in DOMAIN good : good[n] = good[i] /\ \A j \in DOMAIN good : good[j] = good[i] => j <= n
  BY <1>5, <1>6
<1>8. LastPlace(good, good[i]) \in DOMAIN good /\ good[LastPlace(good, good[i])] = good[i]
  BY <1>7 DEF LastPlace
<1> QED
  BY <1>8 DEF NoTwice

\* Each zombie that answered has one entry in the dictionary, with one slice; and if no
\* zombie is named twice, every slice is given to the zombie of its place.
LEMMA ZombiePorts ==
  ASSUME NEW good \in Seq(Zombies)
  PROVE  LET split == zombie_ports(good)
             m == Cardinality(Places(good))
         IN  /\ m \in Nat /\ DOMAIN split = 1..m /\ Len(split) = m
             /\ m = 0 => split = <<>>
             /\ \A n \in 1..m : \E i \in DOMAIN good :
                  /\ split[n].zombie = good[i] /\ i = LastPlace(good, good[i])
                  /\ split[n].ports = Slice(i, good, scan.ports_to_scan)
             /\ \A n, k \in 1..m : split[n].zombie = split[k].zombie => n = k
             /\ NoTwice(good) => \A i \in DOMAIN good : \E n \in 1..m :
                  /\ split[n].zombie = good[i]
                  /\ split[n].ports = Slice(i, good, scan.ports_to_scan)
<1> DEFINE K == Places(good)
           m == Cardinality(K)
           f == InOrder(K)
           split == zombie_ports(good)
<1>1. DOMAIN good = 1..Len(good) /\ Len(good) \in Nat
  OBVIOUS
<1>2. K \in SUBSET Nat /\ IsFiniteSet(K) /\ K \subseteq DOMAIN good
  <2>1. IsFiniteSet(1..Len(good)) /\ 1..Len(good) \subseteq Nat
    BY <1>1, FS_Interval
  <2>2. K \subseteq 1..Len(good)
    BY <1>1 DEF Places
  <2> QED
    BY <1>1, <2>1, <2>2, FS_Subset
<1>3. \A i, j \in K : good[i] = good[j] => i = j
  <2> SUFFICES ASSUME NEW i \in K, NEW j \in K, good[i] = good[j], i # j PROVE FALSE
    OBVIOUS
  <2>1. i \in Nat \ {0} /\ j \in Nat \ {0}
    BY <1>1, <1>2
  <2>2. j \in 1..(i - 1) \/ i \in 1..(j - 1)
    BY <2>1
  <2> QED
    BY <2>2 DEF Places
<1>4. NoTwice(good) => K = DOMAIN good
  <2> SUFFICES ASSUME NoTwice(good), NEW i \in DOMAIN good, NEW j \in 1..(i - 1), good[j] = good[i]
               PROVE  FALSE
    BY DEF Places
  <2>1. j \in DOMAIN good /\ j # i
    BY <1>1
  <2> QED
    BY <2>1 DEF NoTwice
<1> HIDE DEF K
<1>5. /\ m \in Nat
      /\ \A n \in 1..m : f[n] \in K /\ Rank(K, f[n]) = n
      /\ \A i \in K : \E n \in 1..m : f[n] = i
  BY <1>2, InOrderProperties
<1>6. split = [ n \in 1..m |->
                  [zombie |-> good[f[n]],
                   ports |-> Slice(LastPlace(good, good[f[n]]), good, scan.ports_to_scan)] ]
  BY DEF zombie_ports, K
<1> HIDE DEF m, f, split
<1>7. DOMAIN split = 1..m /\ Len(split) = m /\ (m = 0 => split = <<>>)
  BY <1>5, <1>6
<1>8. ASSUME NEW n \in 1..m
      PROVE  /\ split[n].zombie = good[f[n]]
             /\ split[n].ports =
                  Slice(LastPlace(good, good[f[n]]), good, scan.ports_to_scan)
  BY <1>6
<1>9. ASSUME NEW n \in 1..m
      PROVE  \E i \in DOMAIN good :
               /\ split[n].zombie = good[i] /\ i = LastPlace(good, good[i])
               /\ split[n].ports = Slice(i, good, scan.ports_to_scan)
  <2>1. f[n] \in DOMAIN good
    BY <1>2, <1>5
  <2> DEFINE i == LastPlace(good, good[f[n]])
  <2>2. i \in DOMAIN good /\ good[i] = good[f[n]]
    BY <2>1, LastPlaceType
  <2> QED
    BY <1>8, <2>2
<1>10. ASSUME NEW n \in 1..m, NEW k \in 1..m, split[n].zombie = split[k].zombie
       PROVE  n = k
  <2>1. f[n] = f[k]
    BY <1>3, <1>5, <1>8, <1>10
  <2> QED
    BY <1>5, <2>1
<1>11. ASSUME NoTwice(good), NEW i \in DOMAIN good
       PROVE  \E n \in 1..m : /\ split[n].zombie = good[i]
                              /\ split[n].ports = Slice(i, good, scan.ports_to_scan)
  <2>1. PICK n \in 1..m : f[n] = i
    BY <1>4, <1>5, <1>11
  <2>2. LastPlace(good, good[i]) = i
    BY <1>11, LastPlaceType
  <2> QED
    BY <1>8, <2>1, <2>2
<1> QED
  BY <1>5, <1>7, <1>9, <1>10, <1>11 DEF K, m, split

-----------------------------------------------------------------------------
(* The calls of a scan *)

Calls == [target : Targets, zombie : Zombies, port : Ports]
Key(j) == <<j.target, j.port>>

\* Every call asks a port of the scan of a target of the scan; no pair of target and port is
\* asked for twice unless it was named twice; and if no zombie is named twice, all are.
LEMMA SubmittedCalls ==
  ASSUME scan \in ScanType, NEW good \in Seq(Zombies)
  PROVE  LET js == Submitted(good)
         IN  /\ js \in Seq(Calls)
             /\ \A j \in ToSet(js) : Key(j) \in Asked
             /\ NoneTwice => \A m, n \in DOMAIN js : Key(js[m]) = Key(js[n]) => m = n
             /\ NoTwice(good) /\ good # <<>> =>
                  \A k \in Asked : \E j \in ToSet(js) : Key(j) = k
<1> DEFINE ts == scan.targetss
           ps == scan.ports_to_scan
           split == zombie_ports(good)
           m == Cardinality(Places(good))
           call(i, n, x) == [target |-> ts[i], zombie |-> split[n].zombie,
                             port |-> split[n].ports[x]]
           part(i, n) == [x \in DOMAIN split[n].ports |-> call(i, n, x)]
           parts(i) == [n \in DOMAIN split |-> part(i, n)]
           row(i) == FlattenSeq(parts(i))
           rows == [i \in DOMAIN ts |-> row(i)]
           js == Submitted(good)
<1>1. /\ ts \in Seq(Targets) /\ ps \in Seq(Ports)
      /\ DOMAIN ts = 1..Len(ts) /\ Len(ts) \in Nat /\ DOMAIN ps = 1..Len(ps) /\ Len(ps) \in Nat
      /\ \A i \in DOMAIN ts : ts[i] \in Targets
  <2>1. ts \in Seq(Targets) /\ ps \in Seq(Ports)
    BY DEF ScanType
  <2> HIDE DEF ts, ps
  <2> QED
    BY <2>1
<1>2. js = FlattenSeq(rows)
  BY DEF Submitted
<1>3. /\ m \in Nat /\ DOMAIN split = 1..m /\ Len(split) = m /\ (m = 0 => split = <<>>)
      /\ \A n \in 1..m : \E i \in DOMAIN good :
           /\ split[n].zombie = good[i] /\ i = LastPlace(good, good[i])
           /\ split[n].ports = Slice(i, good, ps)
      /\ \A n, k \in 1..m : split[n].zombie = split[k].zombie => n = k
      /\ NoTwice(good) => \A i \in DOMAIN good : \E n \in 1..m :
           /\ split[n].zombie = good[i] /\ split[n].ports = Slice(i, good, ps)
  BY ZombiePorts
<1>4. /\ Asked = {ts[i] : i \in DOMAIN ts} \X {ps[i] : i \in DOMAIN ps}
      /\ NoneTwice <=> NoTwice(ts) /\ NoTwice(ps)
  BY DEF Asked, NoneTwice, NoTwice
<1> HIDE DEF ts, ps, split, m, js
\* The ports of an entry stand in the list of ports, at the positions of one slice.
<1> DEFINE L == Len(good)
           M == Len(ps)
<1>5. ASSUME NEW n \in 1..m
      PROVE  /\ split[n].zombie \in Zombies /\ split[n].ports \in Seq(Ports)
             /\ \E i \in 1..L :
                  /\ split[n].zombie = good[i] /\ i = LastPlace(good, good[i])
                  /\ \A x \in DOMAIN split[n].ports :
                       /\ Start(i, L, M) + x \in DOMAIN ps
                       /\ split[n].ports[x] = ps[Start(i, L, M) + x]
                       /\ Start(i, L, M) + x <= Stop(i, L, M)
                       /\ x \in Nat \ {0} /\ Start(i, L, M) \in Nat
  <2>1. PICK i \in DOMAIN good :
          /\ split[n].zombie = good[i] /\ i = LastPlace(good, good[i])
          /\ split[n].ports = Slice(i, good, ps)
    BY <1>3
  <2> DEFINE s == split[n].ports
             first == Start(i, L, M)
  <2>2. /\ L \in Nat \ {0} /\ DOMAIN good = 1..L
        /\ s \in Seq(Ports) /\ DOMAIN s = 1 .. Stop(i, L, M) - first
        /\ \A x \in DOMAIN s : /\ first + x \in 1..M /\ s[x] = ps[first + x]
                               /\ first + x <= Stop(i, L, M)
    BY <1>1, <2>1, SliceElements
  <2>3. first \in Nat /\ Stop(i, L, M) \in Nat
    BY <1>1, <2>2, SliceBounds
  <2> HIDE DEF s, first
  <2>4. \A x \in DOMAIN s : x \in Nat \ {0}
    BY <2>2, <2>3
  <2>5. i \in 1..L /\ split[n].zombie \in Zombies /\ DOMAIN ps = 1..M
    BY <1>1, <2>1, <2>2
  <2>6. \A x \in DOMAIN s : /\ first + x \in DOMAIN ps /\ s[x] = ps[first + x]
                            /\ first + x <= Stop(i, L, M)
                            /\ x \in Nat \ {0} /\ first \in Nat
    BY <2>2, <2>3, <2>4, <2>5
  <2> HIDE DEF L, M
  <2> QED
    BY <2>1, <2>2, <2>5, <2>6 DEF s, first
<1>6. ASSUME NEW n \in 1..m, NoTwice(ps)
      PROVE  NoTwice(split[n].ports)
  <2>1. PICK i \in 1..L : \A x \in DOMAIN split[n].ports :
                       /\ Start(i, L, M) + x \in DOMAIN ps
                       /\ split[n].ports[x] = ps[Start(i, L, M) + x]
                       /\ x \in Nat \ {0} /\ Start(i, L, M) \in Nat
    BY <1>5
  <2> SUFFICES ASSUME NEW x \in DOMAIN split[n].ports, NEW y \in DOMAIN split[n].ports,
                      split[n].ports[x] = split[n].ports[y]
               PROVE  x = y
    BY DEF NoTwice
  <2>2. Start(i, L, M) + x = Start(i, L, M) + y
    BY <1>6, <2>1 DEF NoTwice
  <2> QED
    BY <2>1, <2>2
\* Two entries have no port in common.
<1>7. ASSUME NEW n \in 1..m, NEW k \in 1..m, NoTwice(ps),
             NEW x \in DOMAIN split[n].ports, NEW y \in DOMAIN split[k].ports,
             split[n].ports[x] = split[k].ports[y]
      PROVE  n = k
  <2>1. PICK i \in 1..L :
          /\ split[n].zombie = good[i]
          /\ Start(i, L, M) + x \in DOMAIN ps
          /\ split[n].ports[x] = ps[Start(i, L, M) + x]
          /\ Start(i, L, M) + x <= Stop(i, L, M)
          /\ x \in Nat \ {0} /\ Start(i, L, M) \in Nat
    BY <1>5
  <2>2. PICK j \in 1..L :
          /\ split[k].zombie = good[j]
          /\ Start(j, L, M) + y \in DOMAIN ps
          /\ split[k].ports[y] = ps[Start(j, L, M) + y]
          /\ Start(j, L, M) + y <= Stop(j, L, M)
          /\ y \in Nat \ {0} /\ Start(j, L, M) \in Nat
    BY <1>5
  <2>3. Start(i, L, M) + x = Start(j, L, M) + y
    BY <1>7, <2>1, <2>2 DEF NoTwice
  <2>4. L \in Nat /\ i \in Nat /\ j \in Nat
    BY <2>1, <2>2
  <2>5. /\ i < j => Stop(i, L, M) <= Start(j, L, M)
        /\ j < i => Stop(j, L, M) <= Start(i, L, M)
        /\ Stop(i, L, M) \in Nat /\ Stop(j, L, M) \in Nat
    <3>1. L \in Nat \ {0} /\ M \in Nat
      BY <1>1, <2>4
    <3> QED
      BY <3>1, SliceBounds
  <2>6. ~(i < j) /\ ~(j < i)
    BY <2>1, <2>2, <2>3, <2>5
  <2>7. i = j
    BY <2>4, <2>6
  <2> QED
    BY <1>3, <2>1, <2>2, <2>7
\* The parts.
<1>8. ASSUME NEW i \in DOMAIN ts, NEW n \in 1..m
      PROVE  /\ part(i, n) \in Seq(Calls)
             /\ ToSet(part(i, n)) = {call(i, n, x) : x \in DOMAIN split[n].ports}
             /\ NoTwice(ps) => NoTwice(part(i, n))
  <2>1. split[n].ports \in Seq(Ports) /\ split[n].zombie \in Zombies /\ ts[i] \in Targets
    BY <1>1, <1>5
  <2>2. DOMAIN split[n].ports = 1..Len(split[n].ports) /\ Len(split[n].ports) \in Nat
        /\ \A x \in DOMAIN split[n].ports : split[n].ports[x] \in Ports
    BY <2>1
  <2>3. \A x \in DOMAIN split[n].ports : call(i, n, x) \in Calls
    BY <2>1, <2>2 DEF Calls
  <2>4. NoTwice(ps) => NoTwice(part(i, n))
    BY <1>6 DEF NoTwice
  <2> HIDE DEF call
  <2>5. part(i, n) \in Seq(Calls)
    BY <2>2, <2>3
  <2>6. ToSet(part(i, n)) = {call(i, n, x) : x \in DOMAIN split[n].ports}
    BY DEF ToSet
  <2> QED
    BY <2>4, <2>5, <2>6
<1> HIDE DEF part
<1>9. ASSUME NEW i \in DOMAIN ts
      PROVE  /\ row(i) \in Seq(Calls)
             /\ ToSet(row(i)) = UNION {ToSet(part(i, n)) : n \in 1..m}
             /\ NoTwice(ps) => NoTwice(row(i))
  <2> DEFINE q == parts(i)
  <2>1. DOMAIN q = 1..m /\ Len(q) = m /\ (m = 0 => q = <<>>) /\ \A n \in 1..m : q[n] = part(i, n)
    BY <1>3
  <2> HIDE DEF q
  <2>2. \A n \in 1..m : q[n] \in Seq(Calls) /\ (NoTwice(ps) => NoTwice(q[n]))
    BY <1>8, <2>1
  <2>3. ASSUME NEW n \in 1..m, NEW k \in 1..m, n # k
        PROVE  ToSet(q[n]) \cap ToSet(q[k]) = {}
    <3> SUFFICES ASSUME NEW x \in ToSet(q[n]), x \in ToSet(q[k]) PROVE FALSE
      OBVIOUS
    <3>1. x.zombie = split[n].zombie /\ x.zombie = split[k].zombie
      BY <1>8, <2>1
    <3> QED
      BY <1>3, <2>3, <3>1
  <2>4. /\ FlattenSeq(q) \in Seq(Calls)
        /\ ToSet(FlattenSeq(q)) = UNION {ToSet(q[n]) : n \in 1..m}
        /\ PartsApart(q, m) => NoTwice(FlattenSeq(q))
    BY <1>3, <2>1, <2>2, FlattenElements
  <2>5. row(i) = FlattenSeq(q)
    BY DEF q
  <2>6. NoTwice(ps) => NoTwice(FlattenSeq(q))
    BY <2>2, <2>3, <2>4 DEF PartsApart
  <2>7. UNION {ToSet(q[n]) : n \in 1..m} = UNION {ToSet(part(i, n)) : n \in 1..m}
    BY <2>1
  <2> HIDE DEF row
  <2> QED
    BY <2>4, <2>5, <2>6, <2>7
<1> HIDE DEF row
<1>10. ASSUME NEW i \in DOMAIN ts, NEW x \in ToSet(row(i))
       PROVE  \E n \in 1..m : \E p \in DOMAIN split[n].ports : x = call(i, n, p)
  BY <1>8, <1>9, <1>10
<1>11. /\ js \in Seq(Calls)
       /\ ToSet(js) = UNION {ToSet(row(i)) : i \in DOMAIN ts}
       /\ NoTwice(ts) /\ NoTwice(ps) => NoTwice(js)
  <2>1. DOMAIN rows = 1..Len(ts) /\ Len(rows) = Len(ts) /\ (Len(ts) = 0 => rows = <<>>)
        /\ \A i \in 1..Len(ts) : rows[i] = row(i)
    BY <1>1
  <2> HIDE DEF rows
  <2>2. \A i \in 1..Len(ts) : rows[i] \in Seq(Calls) /\ (NoTwice(ps) => NoTwice(rows[i]))
    BY <1>1, <1>9, <2>1
  <2>3. ASSUME NoTwice(ts), NEW i \in 1..Len(ts), NEW k \in 1..Len(ts), i # k
        PROVE  ToSet(rows[i]) \cap ToSet(rows[k]) = {}
    <3> SUFFICES ASSUME NEW x \in ToSet(rows[i]), x \in ToSet(rows[k]) PROVE FALSE
      OBVIOUS
    <3>1. x.target = ts[i] /\ x.target = ts[k]
      BY <1>1, <1>10, <2>1
    <3> QED
      BY <1>1, <2>3, <3>1 DEF NoTwice
  <2>4. /\ FlattenSeq(rows) \in Seq(Calls)
        /\ ToSet(FlattenSeq(rows)) = UNION {ToSet(rows[i]) : i \in 1..Len(ts)}
        /\ PartsApart(rows, Len(ts)) => NoTwice(FlattenSeq(rows))
    BY <1>1, <2>1, <2>2, FlattenElements
  <2>5. UNION {ToSet(rows[i]) : i \in 1..Len(ts)} = UNION {ToSet(row(i)) : i \in DOMAIN ts}
    BY <1>1, <2>1
  <2>6. NoTwice(ts) /\ NoTwice(ps) => NoTwice(FlattenSeq(rows))
    BY <2>2, <2>3, <2>4 DEF PartsApart
  <2> QED
    BY <1>2, <2>4, <2>5, <2>6
<1>12. ASSUME NEW j \in ToSet(js)
       PROVE  \E i \in DOMAIN ts : \E n \in 1..m : \E p \in DOMAIN split[n].ports :
                j = call(i, n, p)
  BY <1>10, <1>11
<1>13. ASSUME NEW j \in ToSet(js) PROVE Key(j) \in Asked
  <2>1. PICK i \in DOMAIN ts : \E n \in 1..m : \E p \in DOMAIN split[n].ports :
               j = call(i, n, p)
    BY <1>12
  <2>2. PICK n \in 1..m : \E p \in DOMAIN split[n].ports : j = call(i, n, p)
    BY <2>1
  <2>3. PICK p \in DOMAIN split[n].ports : j = call(i, n, p)
    BY <2>2
  <2>4. j.target = ts[i] /\ j.port = split[n].ports[p]
    BY <2>3
  <2>5. \E x \in DOMAIN ps : split[n].ports[p] = ps[x]
    BY <1>5
  <2> QED
    BY <1>4, <2>4, <2>5 DEF Key
<1>14. ASSUME NoneTwice, NEW a \in DOMAIN js, NEW b \in DOMAIN js, Key(js[a]) = Key(js[b])
       PROVE  a = b
  <2>1. js[a] \in ToSet(js) /\ js[b] \in ToSet(js) /\ NoTwice(ps) /\ NoTwice(ts)
    BY <1>4, <1>14 DEF ToSet
  <2>2. PICK i \in DOMAIN ts, n \in 1..m :
               \E p \in DOMAIN split[n].ports : js[a] = call(i, n, p)
    BY <1>12, <2>1
  <2>3. PICK p \in DOMAIN split[n].ports : js[a] = call(i, n, p)
    BY <2>2
  <2>4. PICK k \in DOMAIN ts, l \in 1..m :
               \E q \in DOMAIN split[l].ports : js[b] = call(k, l, q)
    BY <1>12, <2>1
  <2>5. PICK q \in DOMAIN split[l].ports : js[b] = call(k, l, q)
    BY <2>4
  <2>6. ts[i] = ts[k] /\ split[n].ports[p] = split[l].ports[q]
    BY <1>14, <2>3, <2>5 DEF Key
  <2>7. n = l
    BY <1>7, <2>1, <2>6
  <2>8. js[a] = js[b]
    BY <2>3, <2>5, <2>6, <2>7
  <2>9. NoTwice(js)
    BY <1>11, <2>1
  <2> QED
    BY <2>8, <2>9 DEF NoTwice
<1>15. ASSUME NoTwice(good), good # <<>>, NEW k \in Asked
       PROVE  \E j \in ToSet(js) : Key(j) = k
  <2>1. PICK i \in DOMAIN ts, y \in DOMAIN ps : k = <<ts[i], ps[y]>>
    BY <1>4
  <2>2. L \in Nat \ {0} /\ M \in Nat /\ DOMAIN good = 1..L /\ y \in 1..M
    BY <1>1, <1>15
  <2>3. PICK z \in 1..L : Start(z, L, M) < y /\ y <= Stop(z, L, M)
    BY <2>2, SliceBounds
  <2>4. PICK n \in 1..m : split[n].zombie = good[z] /\ split[n].ports = Slice(z, good, ps)
    BY <1>3, <1>15, <2>2
  <2> DEFINE s == split[n].ports
             first == Start(z, L, M)
             p == y - first
  <2>5. /\ s \in Seq(Ports) /\ DOMAIN s = 1 .. Stop(z, L, M) - first
        /\ \A x \in DOMAIN s : s[x] = ps[first + x]
    BY <1>1, <2>2, <2>4, SliceElements
  <2>6. first \in Nat /\ Stop(z, L, M) \in Nat /\ first < y /\ y <= Stop(z, L, M) /\ y \in Nat
    BY <2>2, <2>3, SliceBounds
  <2> HIDE DEF s, first
  <2>7. p \in 1 .. Stop(z, L, M) - first /\ first + p = y
    BY <2>6
  <2>8. p \in DOMAIN s /\ s[p] = ps[y]
    BY <2>5, <2>7
  <2> HIDE DEF p
  <2>9. call(i, n, p) \in ToSet(part(i, n))
    BY <1>8, <2>8 DEF s
  <2>10. call(i, n, p) \in ToSet(js)
    BY <1>9, <1>11, <2>9
  <2>11. Key(call(i, n, p)) = k
    BY <2>1, <2>8 DEF Key, s
  <2> QED
    BY <2>10, <2>11
<1> QED
  BY <1>11, <1>13, <1>14, <1>15 DEF js

-----------------------------------------------------------------------------
(* The types of the variables *)

Labels   == {"idle", "first probe", "spoof", "second probe", "record", "name", "give_up"}
Attempts == 0 .. scan.max_retries - 1
Ids      == 0 .. IdSpace - 1
Threads(n) == [job : 0..n, pc : Labels, attempt : Attempts, id1 : Ids, bucket : Printed]

TypeOK ==
  /\ scan \in Scans
  /\ target_results \in [Targets -> Results]
  /\ good_zombies \in Seq(Zombies)
  /\ tested \in 0..Len(scan.zombie_ips)
  /\ jobs \in Seq(Calls)
  /\ taken \in 0..Len(jobs)
  /\ worker \in [Workers -> Threads(taken)]
  /\ \A w \in Workers : On(w, "idle") <=> worker[w].job = 0
  /\ ip_id \in [Zombies -> Ids]
  /\ due \subseteq [zombie : Zombies, job : Nat, attempt : Nat]
  /\ chatter \in [Zombies -> Nat]
  /\ phase \in {"test", "scan", "report", "done", "cut_short"}
  /\ reported \in 0..Len(scan.targetss)

LEMMA ScanFields ==
  ASSUME scan \in Scans
  PROVE  /\ scan \in ScanType
         /\ scan.targetss \in Seq(Targets) /\ scan.ports_to_scan \in Seq(Ports)
         /\ scan.zombie_ips \in Seq(Zombies)
         /\ Len(scan.targetss) \in Nat /\ Len(scan.zombie_ips) \in Nat
         /\ \A i \in 1..Len(scan.targetss) : scan.targetss[i] \in Targets
         /\ \A i \in 1..Len(scan.zombie_ips) : scan.zombie_ips[i] \in Zombies
         /\ scan.max_retries \in Nat \ {0} /\ scan.max_threads \in Workers
         /\ scan.chatter \in Nat
         /\ 0 \in Attempts
<1>1. scan \in ScanType
  BY ScanAssumption
<1> DEFINE ts == scan.targetss
           zs == scan.zombie_ips
<1>2. /\ ts \in Seq(Targets) /\ scan.ports_to_scan \in Seq(Ports) /\ zs \in Seq(Zombies)
      /\ scan.max_retries \in Nat \ {0} /\ scan.max_threads \in Workers
      /\ scan.chatter \in Nat
  BY <1>1 DEF ScanType
<1>3. 0 \in Attempts
  BY <1>2 DEF Attempts
<1> HIDE DEF ts, zs
<1>4. /\ Len(ts) \in Nat /\ Len(zs) \in Nat
      /\ \A i \in 1..Len(ts) : ts[i] \in Targets
      /\ \A i \in 1..Len(zs) : zs[i] \in Zombies
  BY <1>2
<1> QED
  BY <1>1, <1>2, <1>3, <1>4 DEF ts, zs

LEMMA PrintedAreBuckets ==
  /\ Printed \subseteq Buckets
  /\ {"open_ports", "closed_filtered_ports", "filtered_ports"} = Printed
  /\ \A d : Judged(d) \in Printed
BY DEF Printed, Buckets, PORT_TO_SERVICES, Judged

LEMMA JobsType ==
  ASSUME TypeOK
  PROVE  /\ Len(jobs) \in Nat /\ DOMAIN jobs = 1..Len(jobs)
         /\ \A n \in DOMAIN jobs :
              /\ jobs[n].target \in Targets /\ jobs[n].zombie \in Zombies
              /\ jobs[n].port \in Ports
<1>1. jobs \in Seq(Calls)
  BY DEF TypeOK
<1>2. Len(jobs) \in Nat /\ DOMAIN jobs = 1..Len(jobs) /\ \A n \in DOMAIN jobs : jobs[n] \in Calls
  BY <1>1
<1> QED
  BY <1>2 DEF Calls

LEMMA BusyWorker ==
  ASSUME TypeOK, NEW w \in Workers, ~On(w, "idle")
  PROVE  /\ worker[w].job \in DOMAIN jobs /\ worker[w].job \in 1..taken
         /\ T(w) \in Targets /\ P(w) \in Ports /\ Z(w) \in Zombies
         /\ target_results[T(w)] \in Results
         /\ worker[w].bucket \in Buckets
         /\ Own(w) \in [zombie : Zombies, job : Nat, attempt : Nat]
<1>1. /\ worker[w].job \in 0..taken /\ worker[w].job # 0 /\ worker[w].bucket \in Printed
      /\ worker[w].attempt \in Attempts /\ scan.max_retries \in Nat
  BY ScanFields DEF TypeOK, Threads
<1>2. worker[w].job \in 1..Len(jobs) /\ worker[w].job \in 1..taken
  BY <1>1, JobsType DEF TypeOK
<1>3. T(w) \in Targets /\ P(w) \in Ports /\ Z(w) \in Zombies
  BY <1>2, JobsType DEF T, P, Z, Job
<1>4. worker[w].job \in Nat /\ worker[w].attempt \in Nat
  BY <1>1, <1>2 DEF Attempts
<1> QED
  BY <1>1, <1>2, <1>3, <1>4, JobsType, PrintedAreBuckets DEF TypeOK, Own

\* The zombie's packet takes the next identifier.
LEMMA NextId ==
  ASSUME TypeOK, NEW z \in Zombies, Sends(z)
  PROVE  /\ ip_id' \in [Zombies -> Ids]
         /\ ip_id'[z] = (ip_id[z] + 1) % IdSpace
         /\ \A y \in Zombies \ {z} : ip_id'[y] = ip_id[y]
<1>1. ip_id \in [Zombies -> Ids] /\ ip_id[z] \in Ids /\ IdSpace \in Nat /\ IdSpace > 2
  BY ScanAssumption DEF TypeOK
<1>2. (ip_id[z] + 1) % IdSpace \in Ids
  <2> DEFINE x == ip_id[z]
  <2>1. x \in Nat
    BY <1>1 DEF Ids
  <2> HIDE DEF x
  <2>2. (x + 1) % IdSpace \in 0 .. IdSpace - 1
    BY <1>1, <2>1
  <2> QED
    BY <2>2 DEF x, Ids
<1>3. ip_id' = [ip_id EXCEPT ![z] = (ip_id[z] + 1) % IdSpace]
  BY <1>1 DEF Sends
<1> DEFINE y == (ip_id[z] + 1) % IdSpace
<1> HIDE DEF y
<1>4. y \in Ids /\ ip_id' = [ip_id EXCEPT ![z] = y]
  BY <1>2, <1>3 DEF y
<1>5. /\ ip_id' \in [Zombies -> Ids] /\ ip_id'[z] = y
      /\ \A a \in Zombies \ {z} : ip_id'[a] = ip_id[a]
  BY <1>1, <1>4
<1> QED
  BY <1>5 DEF y

-----------------------------------------------------------------------------
(* What a busy worker does *)

\* The lists of ports of the buckets B of the target of w gain the port of w, the lists of
\* services of the buckets S a service found for that port; no other list changes.
Lists(w, B, S) ==
  /\ target_results' \in [Targets -> Results]
  /\ \A t \in Targets \ {T(w)} : target_results'[t] = target_results[t]
  /\ \A c \in Buckets :
       /\ target_results'[T(w)].ports[c] =
            IF c \in B THEN Append(target_results[T(w)].ports[c], P(w))
                       ELSE target_results[T(w)].ports[c]
       /\ IF c \in S
          THEN \E v \in Services :
                 /\ v.port = P(w)
                 /\ target_results'[T(w)].services[c] =
                      Append(target_results[T(w)].services[c], v)
          ELSE target_results'[T(w)].services[c] = target_results[T(w)].services[c]

Leaves(w) == worker'[w] = Idle
Goes(w, label, b) ==
  worker'[w] \in [job : {worker[w].job}, pc : {label}, attempt : Attempts, id1 : Ids,
                  bucket : {b}]

\* Before a verdict is recorded.
Asking == {"first probe", "spoof", "second probe"}

AppendsPort(w) ==
  /\ On(w, "record")
  /\ Lists(w, {worker[w].bucket}, {})
  /\ Goes(w, "name", worker[w].bucket)
AppendsService(w) ==
  /\ On(w, "name")
  /\ Lists(w, {}, {worker[w].bucket})
  /\ Leaves(w)
AppendsBoth(w) ==
  /\ On(w, "give_up")
  /\ Lists(w, {"filtered_ports"}, {"filtered_ports"})
  /\ Leaves(w)
AppendsNothing(w) ==
  /\ UNCHANGED target_results
  /\ \/ /\ worker[w].pc \in Asking
        /\ \E l \in Asking \cup {"record", "give_up"}, b \in Printed : Goes(w, l, b)
     \/ /\ On(w, "give_up")
        /\ P(w) \in Recorded(target_results[T(w)], "open_ports")
        /\ Leaves(w)

WorkStep(w) ==
  /\ ~On(w, "idle")
  /\ UNCHANGED <<scan, chatter, progress>>
  /\ ip_id' \in [Zombies -> Ids]
  /\ due' \subseteq [zombie : Zombies, job : Nat, attempt : Nat]
  /\ \A v \in Workers \ {w} : worker'[v] = worker[v]
  /\ worker' = [worker EXCEPT ![w] = worker'[w]]
  /\ AppendsPort(w) \/ AppendsService(w) \/ AppendsBoth(w) \/ AppendsNothing(w)

\* A target's record gains the port, or a service of it, or both.
LEMMA RecordLists ==
  ASSUME TypeOK, NEW w \in Workers, ~On(w, "idle"), NEW b \in Buckets,
         NEW r1 \in Results, NEW B, NEW S,
         target_results' = [target_results EXCEPT ![T(w)] = r1],
         \A c \in Buckets :
           /\ r1.ports[c] = IF c \in B THEN Append(target_results[T(w)].ports[c], P(w))
                                       ELSE target_results[T(w)].ports[c]
           /\ IF c \in S
              THEN \E v \in Services :
                     v.port = P(w) /\ r1.services[c] = Append(target_results[T(w)].services[c], v)
              ELSE r1.services[c] = target_results[T(w)].services[c]
  PROVE  Lists(w, B, S)
<1>1. T(w) \in Targets
  BY BusyWorker
<1>2. /\ target_results' \in [Targets -> Results] /\ target_results'[T(w)] = r1
      /\ \A t \in Targets \ {T(w)} : target_results'[t] = target_results[t]
  BY <1>1 DEF TypeOK
<1> QED
  BY <1>2 DEF Lists

LEMMA RecordPortLists ==
  ASSUME TypeOK, NEW w \in Workers, RecordPort(w)
  PROVE  Lists(w, {worker[w].bucket}, {})
<1> DEFINE r == target_results[T(w)]
           b == worker[w].bucket
           r1 == AppendPort(r, b, P(w))
<1>1. T(w) \in Targets /\ P(w) \in Ports /\ r \in Results /\ b \in Buckets /\ ~On(w, "idle")
  BY BusyWorker DEF RecordPort, On
<1>2. target_results' = [target_results EXCEPT ![T(w)] = r1]
  BY DEF RecordPort, Write
<1> HIDE DEF r, b
<1>3. /\ r1 \in Results /\ r1.services = r.services
      /\ \A c \in Buckets : r1.ports[c] = IF c = b THEN Append(r.ports[c], P(w)) ELSE r.ports[c]
  BY <1>1, AppendPortFields
<1> HIDE DEF r1
<1>4. Lists(w, {b}, {})
  BY <1>1, <1>2, <1>3, RecordLists DEF r
<1> QED
  BY <1>4 DEF b

LEMMA RecordServiceLists ==
  ASSUME TypeOK, NEW w \in Workers, RecordService(w)
  PROVE  Lists(w, {}, {worker[w].bucket})
<1> DEFINE r == target_results[T(w)]
           b == worker[w].bucket
<1>1. T(w) \in Targets /\ P(w) \in Ports /\ r \in Results /\ b \in Buckets /\ ~On(w, "idle")
  BY BusyWorker DEF RecordService, On
<1>2. /\ Table(P(w)) \in Services /\ Table(P(w)).port = P(w)
      /\ Banner(P(w)) \in Services /\ Banner(P(w)).port = P(w)
  BY <1>1, TableIsService
<1>3. PICK r1 \in Results, v \in Services :
        /\ v.port = P(w) /\ r1.ports = r.ports /\ r1.services = r.services
        /\ target_results' = [target_results EXCEPT ![T(w)] = AppendService(r1, b, v)]
  <2>1. CASE Write(T(w), AppendService(r, b, Table(P(w))))
    BY <1>1, <1>2, <2>1 DEF Write
  <2>2. CASE \E x \in Texts : Write(T(w), AppendService(AppendBanner(r, x, P(w)), b, Banner(P(w))))
    <3>1. PICK x \in Texts : target_results' = [target_results EXCEPT ![T(w)] =
                               AppendService(AppendBanner(r, x, P(w)), b, Banner(P(w)))]
      BY <2>2 DEF Write
    <3> DEFINE r1 == AppendBanner(r, x, P(w))
    <3>2. r1 \in Results /\ r1.ports = r.ports /\ r1.services = r.services
      BY <1>1, AppendBannerFields
    <3> HIDE DEF r1
    <3> QED
      BY <1>2, <3>1, <3>2 DEF r1
  <2> QED
    BY <2>1, <2>2 DEF RecordService
<1> DEFINE r2 == AppendService(r1, b, v)
<1> HIDE DEF r, b
<1>4. /\ r2 \in Results /\ r2.ports = r1.ports
      /\ \A c \in Buckets : r2.services[c] =
           IF c = b THEN Append(r1.services[c], v) ELSE r1.services[c]
  BY <1>1, <1>3, AppendServiceFields
<1>5. target_results' = [target_results EXCEPT ![T(w)] = r2]
  BY <1>3
<1> HIDE DEF r2
<1>6. ASSUME NEW c \in Buckets
      PROVE  /\ r2.ports[c] = r.ports[c]
             /\ r2.services[c] = IF c = b THEN Append(r.services[c], v) ELSE r.services[c]
  BY <1>3, <1>4
<1>7. ASSUME NEW c \in Buckets
      PROVE  /\ r2.ports[c] = IF c \in {} THEN Append(r.ports[c], P(w)) ELSE r.ports[c]
             /\ IF c \in {b}
                THEN \E u \in Services : u.port = P(w) /\ r2.services[c] = Append(r.services[c], u)
                ELSE r2.services[c] = r.services[c]
  BY <1>3, <1>6
<1>8. Lists(w, {}, {b})
  BY <1>1, <1>4, <1>5, <1>7, RecordLists DEF r
<1> QED
  BY <1>8 DEF b

LEMMA GiveUpLists ==
  ASSUME TypeOK, NEW w \in Workers, GiveUp(w),
         P(w) \notin Recorded(target_results[T(w)], "open_ports")
  PROVE  Lists(w, {"filtered_ports"}, {"filtered_ports"})
<1> DEFINE r == target_results[T(w)]
           b == "filtered_ports"
           r1 == AppendPort(r, b, P(w))
           r2 == AppendService(r1, b, Table(P(w)))
<1>1. T(w) \in Targets /\ P(w) \in Ports /\ r \in Results /\ b \in Buckets /\ ~On(w, "idle")
  BY BusyWorker, PrintedAreBuckets DEF GiveUp, On
<1>2. Table(P(w)) \in Services /\ Table(P(w)).port = P(w)
  BY <1>1, TableIsService
<1>3. target_results' = [target_results EXCEPT ![T(w)] = r2]
  BY DEF GiveUp, Write
<1> HIDE DEF r, b
<1>4. /\ r1 \in Results /\ r1.services = r.services
      /\ \A c \in Buckets : r1.ports[c] = IF c = b THEN Append(r.ports[c], P(w)) ELSE r.ports[c]
  BY <1>1, AppendPortFields
<1> HIDE DEF r1
<1>5. /\ r2 \in Results /\ r2.ports = r1.ports
      /\ \A c \in Buckets : r2.services[c] =
           IF c = b THEN Append(r1.services[c], Table(P(w))) ELSE r1.services[c]
  BY <1>2, <1>1, <1>4, AppendServiceFields
<1> HIDE DEF r2
<1>6. ASSUME NEW c \in Buckets
      PROVE  /\ r2.ports[c] = IF c \in {b} THEN Append(r.ports[c], P(w)) ELSE r.ports[c]
             /\ IF c \in {b}
                THEN \E u \in Services : u.port = P(w) /\ r2.services[c] = Append(r.services[c], u)
                ELSE r2.services[c] = r.services[c]
  BY <1>2, <1>4, <1>5
<1>7. Lists(w, {b}, {b})
  BY <1>1, <1>3, <1>5, <1>6, RecordLists DEF r
<1> QED
  BY <1>7 DEF b

LEMMA WorkStepEffect ==
  ASSUME TypeOK, NEW w \in Workers, Step(w), ~Take(w)
  PROVE  WorkStep(w)
<1>1. /\ ~On(w, "idle") /\ UNCHANGED <<scan, chatter, progress>>
      /\ worker' = [worker EXCEPT ![w] = worker'[w]]
      /\ \A v \in Workers \ {w} : worker'[v] = worker[v]
  <2>1. UNCHANGED <<scan, chatter, progress>>
    BY DEF Step, FirstProbe, SpoofedSyn, SecondProbe, RecordPort, RecordService, CallRaises,
       GiveUp, environment
  <2>2. ~On(w, "idle")
    BY DEF Step, FirstProbe, SpoofedSyn, SecondProbe, RecordPort, RecordService, CallRaises,
       GiveUp, On
  <2>3. \E s : worker' = [worker EXCEPT ![w] = s]
    BY DEF Step, FirstProbe, SpoofedSyn, SecondProbe, RecordPort, RecordService, CallRaises,
       GiveUp, Return, Settle
  <2>4. PICK s : worker' = [worker EXCEPT ![w] = s]
    BY <2>3
  <2>5. DOMAIN worker = Workers
    BY DEF TypeOK
  <2>6. worker'[w] = s
    BY <2>4, <2>5
  <2> QED
    BY <2>1, <2>2, <2>4, <2>5, <2>6
<1>2. /\ worker[w].attempt \in Attempts /\ worker[w].id1 \in Ids /\ worker[w].bucket \in Printed
      /\ scan.max_retries \in Nat \ {0} /\ DOMAIN worker = Workers
      /\ worker[w] \in [job : {worker[w].job}, pc : Labels, attempt : Attempts, id1 : Ids,
                        bucket : Printed]
      /\ Z(w) \in Zombies /\ Own(w) \in [zombie : Zombies, job : Nat, attempt : Nat]
      /\ ip_id \in [Zombies -> Ids] /\ due \subseteq [zombie : Zombies, job : Nat, attempt : Nat]
  BY <1>1, ScanFields, BusyWorker DEF TypeOK, Threads
<1>3. Return(w) => Leaves(w)
  BY <1>2 DEF Return, Leaves
<1>4. ASSUME NEW b \in Printed, Settle(w, b)
      PROVE  Goes(w, "record", b)
  BY <1>2, <1>4 DEF Settle, Goes
<1>5. Sends(Z(w)) => ip_id' \in [Zombies -> Ids] /\ ip_id'[Z(w)] \in Ids
  BY <1>2, NextId
<1>6. /\ ip_id' \in [Zombies -> Ids]
      /\ due' \subseteq [zombie : Zombies, job : Nat, attempt : Nat]
  BY <1>2, <1>5 DEF Step, FirstProbe, SpoofedSyn, SecondProbe, RecordPort, RecordService,
     CallRaises, GiveUp, environment
<1> SUFFICES AppendsPort(w) \/ AppendsService(w) \/ AppendsBoth(w) \/ AppendsNothing(w)
  BY <1>1, <1>6 DEF WorkStep
<1>7. CASE FirstProbe(w)
  <2>1. \/ Settle(w, "filtered_ports")
        \/ Sends(Z(w)) /\ worker' = [worker EXCEPT ![w].pc = "spoof", ![w].id1 = ip_id'[Z(w)]]
    BY <1>7 DEF FirstProbe
  <2>2. \E l \in Asking \cup {"record", "give_up"}, b \in Printed : Goes(w, l, b)
    <3>1. CASE Settle(w, "filtered_ports")
      BY <1>4, <3>1, PrintedAreBuckets
    <3>2. CASE Sends(Z(w)) /\ worker' = [worker EXCEPT ![w].pc = "spoof", ![w].id1 = ip_id'[Z(w)]]
      <4>1. PICK i \in Ids : i = ip_id'[Z(w)]
        BY <1>5, <3>2
      <4>2. worker' = [worker EXCEPT ![w].pc = "spoof", ![w].id1 = i]
        BY <3>2, <4>1
      <4>3. Goes(w, "spoof", worker[w].bucket)
        BY <1>2, <4>2 DEF Goes
      <4> QED
        BY <1>2, <4>3 DEF Asking
    <3> QED
      BY <2>1, <3>1, <3>2
  <2> QED
    BY <1>7, <2>2 DEF AppendsNothing, FirstProbe, On, Asking
<1>8. CASE SpoofedSyn(w)
  <2>1. worker' = [worker EXCEPT ![w].pc = "second probe"]
    BY <1>8 DEF SpoofedSyn
  <2>2. Goes(w, "second probe", worker[w].bucket)
    BY <1>2, <2>1 DEF Goes
  <2> QED
    BY <1>2, <1>8, <2>2 DEF AppendsNothing, SpoofedSyn, On, Asking
<1>9. CASE SecondProbe(w)
  <2>1. PICK b \in Printed : Settle(w, b)
    <3>1. \/ Settle(w, "filtered_ports")
          \/ Settle(w, Judged(Diff(ip_id'[Z(w)], worker[w].id1)))
      BY <1>9 DEF SecondProbe
    <3> QED
      BY <3>1, PrintedAreBuckets
  <2>2. Goes(w, "record", b)
    BY <1>4, <2>1
  <2> QED
    BY <1>9, <2>2 DEF AppendsNothing, SecondProbe, On, Asking
<1>10. CASE RecordPort(w)
  <2>1. worker' = [worker EXCEPT ![w].pc = "name"]
    BY <1>10 DEF RecordPort
  <2>2. Goes(w, "name", worker[w].bucket)
    BY <1>2, <2>1 DEF Goes
  <2> QED
    BY <1>10, <2>2, RecordPortLists DEF AppendsPort, RecordPort
<1>11. CASE RecordService(w)
  BY <1>3, <1>11, RecordServiceLists DEF AppendsService, RecordService
<1>12. CASE CallRaises(w)
  <2>1. CASE LastAttempt(w)
    <3>1. worker' = [worker EXCEPT ![w].pc = "give_up"]
      BY <1>12, <2>1 DEF CallRaises
    <3>2. Goes(w, "give_up", worker[w].bucket)
      BY <1>2, <3>1 DEF Goes
    <3> QED
      BY <1>2, <1>12, <3>2 DEF AppendsNothing, CallRaises, Asking
  <2>2. CASE ~LastAttempt(w)
    <3>1. PICK n \in Attempts : n = worker[w].attempt + 1
      BY <1>2, <2>2 DEF LastAttempt, Attempts
    <3>2. worker' = [worker EXCEPT ![w].pc = "first probe", ![w].attempt = n]
      BY <1>12, <2>2, <3>1 DEF CallRaises
    <3>3. Goes(w, "first probe", worker[w].bucket)
      BY <1>2, <3>2 DEF Goes
    <3> QED
      BY <1>2, <1>12, <3>3 DEF AppendsNothing, CallRaises, Asking
  <2> QED
    BY <2>1, <2>2
<1>13. CASE GiveUp(w)
  <2>1. On(w, "give_up") /\ Leaves(w)
    BY <1>3, <1>13 DEF GiveUp
  <2>2. CASE P(w) \in Recorded(target_results[T(w)], "open_ports")
    BY <1>13, <2>1, <2>2 DEF GiveUp, AppendsNothing
  <2>3. CASE P(w) \notin Recorded(target_results[T(w)], "open_ports")
    BY <1>13, <2>1, <2>3, GiveUpLists DEF AppendsBoth
  <2> QED
    BY <2>2, <2>3
<1> QED
  BY <1>7, <1>8, <1>9, <1>10, <1>11, <1>12, <1>13 DEF Step

-----------------------------------------------------------------------------
(* Type correctness *)

LEMMA ScanStays == [Next]_vars => scan' = scan
<1> SUFFICES ASSUME [Next]_vars PROVE scan' = scan
  OBVIOUS
<1>1. CASE UNCHANGED vars \/ Main
  BY <1>1 DEF Main, TestZombie, TestRaises, StartScan, FinishScan, ReportTarget, FinishReport, vars
<1>2. ASSUME NEW w \in Workers, Step(w) PROVE scan' = scan
  BY <1>2 DEF Step, Take, FirstProbe, SpoofedSyn, SecondProbe, RecordPort, RecordService,
     CallRaises, GiveUp
<1>3. CASE Zombie
  BY <1>3 DEF Zombie, ZombieResets, ZombieChatters
<1> QED
  BY <1>1, <1>2, <1>3 DEF Next, Terminated

LEMMA InitType == Init => TypeOK
<1> SUFFICES ASSUME Init PROVE TypeOK
  OBVIOUS
<1>1. scan \in Scans
  BY DEF Init
<1>2. initialize_target_results \in Results
  BY DEF initialize_target_results, Results
<1>3. target_results \in [Targets -> Results]
  BY <1>2 DEF Init
<1>4. /\ 0 \in Attempts /\ Len(scan.targetss) \in Nat /\ Len(scan.zombie_ips) \in Nat
      /\ scan.chatter \in Nat
  BY <1>1, ScanFields
<1>5. /\ IdSpace - 3 \in Ids /\ 0 \in Ids
      /\ "idle" \in Labels /\ "filtered_ports" \in Printed
  BY ScanAssumption DEF Ids, Labels, Printed
<1>6. Idle \in Threads(0)
  BY <1>4, <1>5 DEF Idle, Threads
<1>7. \A w \in Workers : worker[w] = Idle
  BY DEF Init
<1>8. worker \in [Workers -> Threads(taken)]
  BY <1>6 DEF Init
<1>9. \A w \in Workers : On(w, "idle") <=> worker[w].job = 0
  BY <1>7 DEF On, Idle
<1>10. good_zombies \in Seq(Zombies) /\ jobs \in Seq(Calls) /\ taken \in 0..Len(jobs)
       /\ tested \in 0..Len(scan.zombie_ips) /\ reported \in 0..Len(scan.targetss)
  BY <1>4 DEF Init
<1>11. ip_id \in [Zombies -> Ids] /\ chatter \in [Zombies -> Nat] /\ due = {} /\ phase = "test"
  BY <1>4, <1>5 DEF Init
<1> QED
  BY <1>1, <1>3, <1>8, <1>9, <1>10, <1>11 DEF TypeOK

\* What Take does to the thread that takes a job.
LEMMA TakeType ==
  ASSUME TypeOK, NEW w \in Workers, Take(w)
  PROVE  /\ On(w, "idle") /\ worker[w].job = 0 /\ phase = "scan" /\ w <= scan.max_threads
         /\ worker'[w] \in [job : {taken + 1}, pc : {"first probe"}, attempt : {0}, id1 : {0},
                            bucket : {"filtered_ports"}]
         /\ \A v \in Workers \ {w} : worker'[v] = worker[v]
         /\ worker' = [worker EXCEPT ![w] = worker'[w]]
         /\ taken' = taken + 1 /\ taken + 1 \in DOMAIN jobs /\ taken \in Nat
         /\ UNCHANGED <<scan, target_results, environment, good_zombies, tested, jobs, phase,
                        reported>>
<1>1. /\ Len(jobs) \in Nat /\ taken \in 0..Len(jobs) /\ DOMAIN jobs = 1..Len(jobs)
      /\ DOMAIN worker = Workers
  BY JobsType DEF TypeOK
<1>2. /\ On(w, "idle") /\ taken < Len(jobs) /\ taken' = taken + 1
      /\ UNCHANGED <<scan, target_results, environment, good_zombies, tested, jobs, phase, reported>>
      /\ worker' = [worker EXCEPT ![w] = [Idle EXCEPT !.job = taken + 1, !.pc = "first probe"]]
      /\ phase = "scan" /\ w <= scan.max_threads
  BY DEF Take
<1> DEFINE n == taken + 1
<1>3. [Idle EXCEPT !.job = taken + 1, !.pc = "first probe"] \in
        [job : {n}, pc : {"first probe"}, attempt : {0}, id1 : {0}, bucket : {"filtered_ports"}]
  <2> HIDE DEF n
  <2> DEFINE e == [Idle EXCEPT !.job = n]
  <2>1. e \in [job : {n}, pc : {"idle"}, attempt : {0}, id1 : {0}, bucket : {"filtered_ports"}]
    BY DEF Idle
  <2>2. [Idle EXCEPT !.job = n, !.pc = "first probe"] = [e EXCEPT !.pc = "first probe"]
    BY DEF Idle
  <2> HIDE DEF e
  <2>3. [e EXCEPT !.pc = "first probe"] \in
          [job : {n}, pc : {"first probe"}, attempt : {0}, id1 : {0}, bucket : {"filtered_ports"}]
    BY <2>1
  <2> USE DEF n
  <2> QED
    BY <2>2, <2>3
<1>4. taken + 1 \in DOMAIN jobs /\ taken \in Nat
  BY <1>1, <1>2
<1>5. worker[w].job = 0
  BY <1>2 DEF TypeOK
<1>6. worker'[w] = [Idle EXCEPT !.job = taken + 1, !.pc = "first probe"]
      /\ \A v \in Workers \ {w} : worker'[v] = worker[v]
  BY <1>1, <1>2
<1> QED
  BY <1>1, <1>2, <1>3, <1>4, <1>5, <1>6

\* How far the scan has come: the calls are submitted when the zombies are known, no thread
\* works outside the scan, and no more threads work than the pool has.
Quiet == \A w \in Workers : On(w, "idle")
Stage ==
  /\ phase \in {"test", "cut_short"} => jobs = <<>>
  /\ phase \notin {"test", "cut_short"} =>
       jobs = IF good_zombies = <<>> THEN <<>> ELSE Submitted(good_zombies)
  /\ phase = "scan" => good_zombies # <<>>
  /\ phase # "scan" => taken = Len(jobs) /\ Quiet
  /\ phase = "test" => target_results = [t \in Targets |-> initialize_target_results]
  /\ \A w \in Workers : ~On(w, "idle") => w <= scan.max_threads

LEMMA SubmittedFixed ==
  ASSUME scan' = scan, good_zombies' = good_zombies
  PROVE  Submitted(good_zombies)' = Submitted(good_zombies)
<1>1. zombie_ports(good_zombies)' = zombie_ports(good_zombies)
  BY DEF zombie_ports, Places, LastPlace, Slice
<1> QED
  BY <1>1 DEF Submitted

LEMMA NextType == TypeOK /\ Stage /\ [Next]_vars => TypeOK'
<1> SUFFICES ASSUME TypeOK, Stage, [Next]_vars PROVE TypeOK'
  OBVIOUS
<1>1. /\ scan \in Scans /\ scan \in ScanType /\ scan' = scan
      /\ Len(jobs) \in Nat /\ taken \in 0..Len(jobs) /\ DOMAIN jobs = 1..Len(jobs)
      /\ Len(scan.targetss) \in Nat /\ reported \in 0..Len(scan.targetss)
      /\ Len(scan.zombie_ips) \in Nat /\ tested \in 0..Len(scan.zombie_ips)
      /\ 0 \in Attempts /\ Attempts' = Attempts
  BY ScanStays, JobsType, ScanFields DEF TypeOK, Attempts
<1> DEFINE Rest ==
      /\ good_zombies \in Seq(Zombies) /\ tested \in 0..Len(scan.zombie_ips)
      /\ jobs \in Seq(Calls) /\ taken \in 0..Len(jobs)
      /\ ip_id \in [Zombies -> Ids]
      /\ due \subseteq [zombie : Zombies, job : Nat, attempt : Nat]
      /\ chatter \in [Zombies -> Nat]
      /\ phase \in {"test", "scan", "report", "done", "cut_short"}
      /\ reported \in 0..Len(scan.targetss)
<1>2. Rest
  BY DEF TypeOK
\* Steps that leave the threads alone.
<1>3. ASSUME Rest', target_results' \in [Targets -> Results], UNCHANGED <<taken, worker>>
      PROVE  TypeOK'
  BY <1>1, <1>3 DEF TypeOK, Threads, On
<1>4. CASE UNCHANGED vars \/ FinishScan \/ FinishReport \/ TestRaises
  <2>1. UNCHANGED <<target_results, taken, worker, good_zombies, tested, jobs, ip_id, due,
                    chatter, reported>>
    BY <1>4 DEF vars, environment, progress, FinishScan, FinishReport, TestRaises
  <2>2. phase' \in {"test", "scan", "report", "done", "cut_short"}
    BY <1>4 DEF vars, progress, FinishScan, FinishReport, TestRaises, TypeOK
  <2>3. Rest'
    BY <1>1, <1>2, <2>1, <2>2
  <2>4. target_results' \in [Targets -> Results]
    BY <2>1 DEF TypeOK
  <2> QED
    BY <1>3, <2>1, <2>3, <2>4
<1>5. CASE TestZombie
  <2>1. /\ UNCHANGED <<target_results, taken, worker, jobs, due, chatter, reported, phase>>
        /\ tested' = tested + 1 /\ tested < Len(scan.zombie_ips)
    BY <1>5 DEF TestZombie
  <2>2. tested' \in 0..Len(scan.zombie_ips) /\ tested + 1 \in 1..Len(scan.zombie_ips)
    BY <1>1, <2>1
  <2>3. PICK z \in Zombies : z = scan.zombie_ips[tested + 1]
    BY <1>1, <2>2, ScanFields
  <2>4. \/ good_zombies' = Append(good_zombies, z) /\ Sends(z)
        \/ UNCHANGED <<good_zombies, ip_id>>
    BY <1>5, <2>3 DEF TestZombie
  <2>5. good_zombies' \in Seq(Zombies) /\ ip_id' \in [Zombies -> Ids]
    <3>1. Append(good_zombies, z) \in Seq(Zombies)
      BY <1>2
    <3>2. Sends(z) => ip_id' \in [Zombies -> Ids]
      BY NextId
    <3> QED
      BY <1>2, <2>4, <3>1, <3>2
  <2>6. Rest'
    BY <1>1, <1>2, <2>1, <2>2, <2>5
  <2>7. target_results' \in [Targets -> Results]
    BY <2>1 DEF TypeOK
  <2> QED
    BY <1>3, <2>1, <2>6, <2>7
<1>6. CASE StartScan
  <2>1. /\ UNCHANGED <<target_results, taken, worker, good_zombies, tested, ip_id, due, chatter,
                       reported>>
        /\ phase = "test" /\ phase' \in {"scan", "report"}
        /\ jobs' = jobs \/ jobs' = Submitted(good_zombies)
    BY <1>6 DEF StartScan, environment
  <2>2. jobs' \in Seq(Calls)
    BY <1>1, <1>2, <2>1, SubmittedCalls
  <2>3. taken = 0
    BY <2>1 DEF Stage
  <2>4. Len(jobs') \in Nat
    BY <2>2
  <2>5. taken' \in 0..Len(jobs')
    BY <2>1, <2>3, <2>4
  <2>6. Rest'
    BY <1>1, <1>2, <2>1, <2>2, <2>5
  <2>7. target_results' \in [Targets -> Results]
    BY <2>1 DEF TypeOK
  <2> QED
    BY <1>3, <2>1, <2>6, <2>7
<1>7. CASE ReportTarget
  <2>1. /\ UNCHANGED <<taken, worker, good_zombies, tested, jobs, ip_id, due, chatter, phase>>
        /\ reported' = reported + 1 /\ reported < Len(scan.targetss)
    BY <1>7 DEF ReportTarget, environment
  <2>2. target_results' \in [Targets -> Results]
    BY <1>7, SyncAndDeduplicateType DEF ReportTarget, Write, TypeOK
  <2>3. reported' \in 0..Len(scan.targetss)
    BY <1>1, <2>1
  <2>4. Rest'
    BY <1>1, <1>2, <2>1, <2>3
  <2> QED
    BY <1>3, <2>1, <2>2, <2>4
<1>8. CASE Zombie
  <2>1. UNCHANGED <<target_results, taken, worker, good_zombies, tested, jobs, phase, reported>>
    BY <1>8 DEF Zombie, ZombieResets, ZombieChatters, progress
  <2>2. /\ ip_id' \in [Zombies -> Ids]
        /\ due' \subseteq due /\ chatter' \in [Zombies -> Nat]
    <3>1. ASSUME NEW d \in due, ZombieResets(d) PROVE <2>2!1 /\ <2>2!2
      BY <1>2, <3>1, NextId DEF ZombieResets
    <3>2. ASSUME NEW z \in Zombies, ZombieChatters(z) PROVE <2>2!1 /\ <2>2!2
      <4>1. chatter[z] \in Nat /\ chatter[z] > 0 /\ chatter' = [chatter EXCEPT ![z] = chatter[z] - 1]
            /\ due' = due
        BY <1>2, <3>2 DEF ZombieChatters
      <4> DEFINE c == chatter[z] - 1
      <4>2. c \in Nat
        BY <4>1
      <4>3. chatter' = [chatter EXCEPT ![z] = c]
        BY <4>1
      <4> HIDE DEF c
      <4> QED
        BY <1>2, <3>2, <4>1, <4>2, <4>3, NextId DEF ZombieChatters
    <3> QED
      BY <1>8, <3>1, <3>2 DEF Zombie
  <2>3. Rest'
    BY <1>1, <1>2, <2>1, <2>2
  <2>4. target_results' \in [Targets -> Results]
    BY <2>1 DEF TypeOK
  <2> QED
    BY <1>3, <2>1, <2>3, <2>4
\* A step of w changes the state of w only.
<1>9. ASSUME NEW w \in Workers, NEW k \in {taken, taken + 1}, taken' = k, Rest',
             worker' = [worker EXCEPT ![w] = worker'[w]],
             worker'[w] \in Threads(k), worker'[w].pc = "idle" <=> worker'[w].job = 0,
             target_results' \in [Targets -> Results]
      PROVE  TypeOK'
  <2>1. Threads(taken) \subseteq Threads(k)
    <3>1. 0..taken \subseteq 0..k
      BY <1>1, <1>9
    <3> QED
      BY <3>1 DEF Threads
  <2>2. worker \in [Workers -> Threads(taken)]
    BY DEF TypeOK
  <2>3. /\ worker' \in [Workers -> Threads(k)]
        /\ \A v \in Workers \ {w} : worker'[v] = worker[v]
    BY <1>9, <2>1, <2>2
  <2>4. worker' \in [Workers -> [job : 0..taken', pc : Labels, attempt : Attempts', id1 : Ids,
                                 bucket : Printed]]
    BY <1>1, <1>9, <2>3 DEF Threads
  <2>5. \A v \in Workers : worker'[v].pc = "idle" <=> worker'[v].job = 0
    BY <1>9, <2>3 DEF TypeOK, On
  <2> QED
    BY <1>1, <1>9, <2>4, <2>5 DEF TypeOK, Threads, On
<1>10. ASSUME NEW w \in Workers, Take(w)
       PROVE  TypeOK'
  <2>1. /\ worker'[w] \in [job : {taken + 1}, pc : {"first probe"}, attempt : {0}, id1 : {0},
                           bucket : {"filtered_ports"}]
        /\ worker' = [worker EXCEPT ![w] = worker'[w]]
        /\ taken' = taken + 1 /\ taken + 1 \in 1..Len(jobs) /\ taken \in Nat
        /\ UNCHANGED <<target_results, environment, good_zombies, tested, jobs, phase, reported>>
    BY <1>1, <1>10, TakeType
  <2>2. /\ "filtered_ports" \in Printed /\ "first probe" \in Labels /\ 0 \in Ids
        /\ taken + 1 \in 0 .. taken + 1 /\ taken' \in 0..Len(jobs) /\ taken + 1 # 0
        /\ Len(jobs') = Len(jobs)
    <3>1. "filtered_ports" \in Printed /\ "first probe" \in Labels
      BY DEF Labels, Printed
    <3>2. 0 \in Ids
      BY ScanAssumption DEF Ids
    <3>3. taken + 1 \in 0 .. taken + 1 /\ taken + 1 \in 0..Len(jobs) /\ taken + 1 # 0
      <4> DEFINE x == Len(jobs)
      <4>1. x \in Nat /\ taken \in Nat /\ taken + 1 \in 1..x
        BY <1>1, <2>1
      <4> HIDE DEF x
      <4>2. taken + 1 \in 0 .. taken + 1 /\ taken + 1 \in 0..x /\ taken + 1 # 0
        BY <4>1
      <4> QED
        BY <4>2 DEF x
    <3> QED
      BY <2>1, <3>1, <3>2, <3>3
  <2>3. worker'[w] \in Threads(taken + 1)
    BY <1>1, <2>1, <2>2 DEF Threads
  <2>4. target_results' \in [Targets -> Results]
    BY <2>1 DEF TypeOK
  <2>5. worker'[w].pc = "first probe" /\ worker'[w].job # 0
    BY <2>1, <2>2
  <2>6. Rest'
    BY <1>1, <1>2, <2>1, <2>2 DEF environment
  <2> QED
    BY <1>9, <2>1, <2>3, <2>4, <2>5, <2>6
<1>11. ASSUME NEW w \in Workers, Step(w), ~Take(w)
       PROVE  TypeOK'
  <2>1. WorkStep(w)
    BY <1>11, WorkStepEffect
  <2>2. target_results' \in [Targets -> Results]
    BY <2>1 DEF WorkStep, AppendsPort, AppendsService, AppendsBoth, AppendsNothing, Lists,
       TypeOK
  <2>3. /\ worker[w] \in Threads(taken) /\ worker[w].job # 0 /\ worker[w].job \in 0..taken
        /\ taken' = taken /\ worker[w].bucket \in Printed
        /\ worker' = [worker EXCEPT ![w] = worker'[w]]
    BY <2>1 DEF WorkStep, TypeOK, Threads, progress
  <2>4. Rest'
    BY <1>1, <1>2, <2>1 DEF WorkStep, progress
  <2>5. CASE Leaves(w)
    <3>1. worker'[w].pc = "idle" /\ worker'[w].job = 0
      BY <2>5 DEF Leaves, Idle
    <3>2. Idle \in Threads(taken)
      <4>1. /\ 0 \in Ids /\ "idle" \in Labels /\ "filtered_ports" \in Printed /\ 0 \in 0..taken
        BY <1>1, <2>3, ScanAssumption DEF Ids, Labels, Printed
      <4> QED
        BY <1>1, <2>3, <4>1 DEF Idle, Threads
    <3> QED
      BY <1>9, <2>2, <2>3, <2>4, <2>5, <3>1, <3>2 DEF Leaves
  <2>6. ASSUME NEW l \in Labels \ {"idle"}, NEW b \in Printed, Goes(w, l, b)
        PROVE  TypeOK'
    <3>1. worker'[w].pc = l /\ worker'[w].job = worker[w].job
      BY <2>6 DEF Goes
    <3>2. worker'[w] \in Threads(taken)
      BY <2>3, <2>6 DEF Goes, Threads
    <3> QED
      BY <1>9, <2>2, <2>3, <2>4, <2>6, <3>1, <3>2
  <2>7. /\ Asking \cup {"record", "give_up"} \subseteq Labels \ {"idle"}
        /\ "name" \in Labels \ {"idle"}
    BY DEF Asking, Labels
  <2> QED
    BY <2>1, <2>3, <2>5, <2>6, <2>7 DEF WorkStep, AppendsPort, AppendsService, AppendsBoth,
       AppendsNothing
<1> QED
  BY <1>4, <1>5, <1>6, <1>7, <1>8, <1>10, <1>11 DEF Next, Main, Terminated

LEMMA NextStage == TypeOK /\ Stage /\ [Next]_vars => Stage'
<1> SUFFICES ASSUME TypeOK, Stage, [Next]_vars PROVE Stage'
  OBVIOUS
<1>1. /\ scan' = scan /\ DOMAIN worker = Workers /\ Len(jobs) \in Nat /\ taken \in 0..Len(jobs)
      /\ \A w \in Workers : On(w, "idle")' <=> worker'[w].pc = "idle"
      /\ \A w \in Workers : On(w, "idle") <=> worker[w].pc = "idle"
  BY ScanStays, JobsType DEF TypeOK, On
<1>2. good_zombies' = good_zombies => Submitted(good_zombies)' = Submitted(good_zombies)
  BY <1>1, SubmittedFixed
<1>3. CASE UNCHANGED vars
  <2>1. UNCHANGED <<target_results, taken, worker, good_zombies, jobs, phase>>
    BY <1>3 DEF vars, progress
  <2> QED
    BY <1>1, <1>2, <2>1 DEF Stage, Quiet
<1>4. CASE TestZombie \/ TestRaises
  <2>1. /\ phase = "test" /\ phase' \in {"test", "cut_short"}
        /\ UNCHANGED <<target_results, taken, worker, jobs>>
    BY <1>4 DEF TestZombie, TestRaises
  <2> QED
    BY <1>1, <2>1 DEF Stage, Quiet
<1>5. CASE StartScan
  <2>1. /\ phase = "test" /\ UNCHANGED <<target_results, taken, worker, good_zombies>>
        /\ IF good_zombies = <<>>
           THEN phase' = "report" /\ UNCHANGED jobs
           ELSE phase' = "scan" /\ jobs' = Submitted(good_zombies)
    BY <1>5 DEF StartScan
  <2> QED
    BY <1>1, <1>2, <2>1 DEF Stage, Quiet
<1>6. CASE FinishScan
  <2>1. /\ phase = "scan" /\ phase' = "report" /\ taken = Len(jobs) /\ Quiet
        /\ UNCHANGED <<target_results, taken, worker, good_zombies, jobs>>
    BY <1>6 DEF FinishScan, Quiet
  <2> QED
    BY <1>1, <1>2, <2>1 DEF Stage, Quiet
<1>7. CASE ReportTarget \/ FinishReport
  <2>1. /\ phase = "report" /\ phase' \in {"report", "done"}
        /\ UNCHANGED <<taken, worker, good_zombies, jobs>>
    BY <1>7 DEF ReportTarget, FinishReport
  <2> QED
    BY <1>1, <1>2, <2>1 DEF Stage, Quiet
<1>8. CASE Zombie
  <2>1. UNCHANGED <<target_results, taken, worker, good_zombies, jobs, phase>>
    BY <1>8 DEF Zombie, ZombieResets, ZombieChatters, progress
  <2> QED
    BY <1>1, <1>2, <2>1 DEF Stage, Quiet
<1>9. ASSUME NEW w \in Workers, Take(w)
      PROVE  Stage'
  <2>1. /\ phase = "scan" /\ w <= scan.max_threads
        /\ \A v \in Workers \ {w} : worker'[v] = worker[v]
        /\ UNCHANGED <<good_zombies, jobs, phase>>
    BY <1>9, TakeType
  <2> QED
    BY <1>1, <1>2, <2>1 DEF Stage
<1>10. ASSUME NEW w \in Workers, Step(w), ~Take(w)
       PROVE  Stage'
  <2>1. /\ ~On(w, "idle") /\ UNCHANGED <<good_zombies, jobs, phase, taken>>
        /\ \A v \in Workers \ {w} : worker'[v] = worker[v]
    BY <1>10, WorkStepEffect DEF WorkStep, progress
  <2>2. phase = "scan" /\ w <= scan.max_threads
    BY <2>1 DEF Stage, Quiet
  <2> QED
    BY <1>1, <1>2, <2>1, <2>2 DEF Stage
<1> QED
  BY <1>3, <1>4, <1>5, <1>6, <1>7, <1>8, <1>9, <1>10 DEF Next, Main, Terminated

LEMMA InitStage == Init => Stage
BY DEF Init, Stage, Quiet, On, Idle

\* Every variable keeps its type: the identifiers of the zombies wrap within their space,
\* a thread makes no more attempts than max_retries, and the calls submitted to the pool
\* are calls for the targets, ports and zombies of the scan.
THEOREM TypeCorrect == Spec => []TypeOK
<1>1. Init => TypeOK /\ Stage
  BY InitType, InitStage
<1>2. TypeOK /\ Stage /\ [Next]_vars => (TypeOK /\ Stage)'
  BY NextType, NextStage
<1>3. TypeOK /\ Stage => TypeOK
  OBVIOUS
<1> QED
  BY <1>1, <1>2, <1>3, PTL DEF Spec

-----------------------------------------------------------------------------
(* One verdict per port *)

\* No two threads hold the same job.
Distinct ==
  \A w \in Workers : \A v \in Workers \ {w} :
    worker[v].job = worker[w].job => worker[w].job = 0

Seen(t, p, b) == p \in Recorded(target_results[t], b)
Unseen(t, p)  == \A b \in Buckets : ~Seen(t, p, b)
Taken(t, p)   == \E n \in 1..taken : jobs[n].target = t /\ jobs[n].port = p

\* Where the verdict of a job is still to be written.
Unsettled == Asking \cup {"record", "give_up"}

\* A port stands nowhere before its job is taken, nor while its thread may settle it, in one
\* bucket afterwards, and once.
VerdictInv ==
  /\ Distinct
  /\ NoneTwice =>
       /\ \A t \in Targets, p \in Ports :
            /\ \A b, c \in Buckets : Seen(t, p, b) /\ Seen(t, p, c) => b = c
            /\ ~Taken(t, p) => Unseen(t, p)
       /\ \A w \in Workers : worker[w].pc \in Unsettled => Unseen(T(w), P(w))
       /\ \A t \in Targets, b \in Buckets : NoTwice(target_results[t].ports[b])

\* With nothing named twice no two calls ask for the same port.
LEMMA JobsApart ==
  ASSUME TypeOK, Stage, NoneTwice, NEW m \in DOMAIN jobs, NEW n \in DOMAIN jobs,
         Key(jobs[m]) = Key(jobs[n])
  PROVE  m = n
<1>1. jobs = <<>> \/ jobs = Submitted(good_zombies)
  BY DEF Stage
<1>2. jobs # <<>>
  BY DEF TypeOK
<1>3. scan \in ScanType /\ good_zombies \in Seq(Zombies)
  BY ScanFields DEF TypeOK
<1> QED
  BY <1>1, <1>2, <1>3, SubmittedCalls

LEMMA NothingSeen ==
  ASSUME target_results = [t \in Targets |-> initialize_target_results],
         NEW t \in Targets, NEW b \in Buckets
  PROVE  /\ Recorded(target_results[t], b) = {}
         /\ NoTwice(target_results[t].ports[b])
  BY DEF initialize_target_results, Recorded, NoTwice

LEMMA InitVerdict == Init => VerdictInv
<1> SUFFICES ASSUME Init PROVE VerdictInv
  OBVIOUS
<1>1. /\ target_results = [t \in Targets |-> initialize_target_results]
      /\ \A w \in Workers : worker[w] = Idle
  BY DEF Init
<1>2. \A w \in Workers : worker[w].pc \notin Unsettled /\ worker[w].job = 0
  <2>1. Idle.pc = "idle" /\ Idle.job = 0
    BY DEF Idle
  <2>2. "idle" \notin Unsettled
    BY DEF Unsettled, Asking
  <2> QED
    BY <1>1, <2>1, <2>2
<1> QED
  BY <1>1, <1>2, NothingSeen DEF VerdictInv, Distinct, Unseen, Seen

LEMMA ListsRecorded ==
  ASSUME TypeOK, NEW w \in Workers, ~On(w, "idle"), NEW B, NEW S, Lists(w, B, S),
         NEW t \in Targets, NEW c \in Buckets
  PROVE  Recorded(target_results'[t], c) =
           Recorded(target_results[t], c) \cup (IF t = T(w) /\ c \in B THEN {P(w)} ELSE {})
<1>1. T(w) \in Targets /\ P(w) \in Ports /\ target_results[T(w)] \in Results
  BY BusyWorker
<1>2. CASE t # T(w)
  BY <1>2 DEF Lists
<1>3. CASE t = T(w) /\ c \notin B
  <2>1. target_results'[T(w)].ports[c] = target_results[T(w)].ports[c]
    BY <1>3 DEF Lists
  <2> QED
    BY <1>3, <2>1 DEF Recorded
<1>4. CASE t = T(w) /\ c \in B
  <2> DEFINE q == target_results[T(w)].ports[c]
  <2>1. q \in Seq(Ports) /\ target_results'[T(w)].ports[c] = Append(q, P(w))
    BY <1>1, <1>4 DEF Lists, Results
  <2> HIDE DEF q
  <2>2. {Append(q, P(w))[i] : i \in DOMAIN Append(q, P(w))} = {q[i] : i \in DOMAIN q} \cup {P(w)}
    BY <1>1, <2>1, AppendElements
  <2> QED
    BY <1>4, <2>1, <2>2 DEF Recorded, q
<1> QED
  BY <1>2, <1>3, <1>4

\* How a busy worker moves on.
LEMMA WorkMoves ==
  ASSUME NEW w \in Workers, WorkStep(w)
  PROVE  /\ Leaves(w) => worker'[w].pc = "idle" /\ worker'[w].job = 0
         /\ \/ Leaves(w)
            \/ /\ worker'[w].job = worker[w].job /\ worker'[w].pc = "name"
               /\ worker[w].pc = "record" /\ worker'[w].bucket = worker[w].bucket
            \/ /\ worker'[w].job = worker[w].job /\ worker'[w].pc \in Unsettled
               /\ worker[w].pc \in Asking /\ target_results' = target_results
<1>1. Leaves(w) => worker'[w].pc = "idle" /\ worker'[w].job = 0
  BY DEF Leaves, Idle
<1>2. ASSUME NEW l, NEW b, Goes(w, l, b)
      PROVE  worker'[w].job = worker[w].job /\ worker'[w].pc = l /\ worker'[w].bucket = b
  BY <1>2 DEF Goes
<1> QED
  BY <1>1, <1>2 DEF WorkStep, AppendsPort, AppendsService, AppendsBoth, AppendsNothing, On,
     Unsettled

\* The lists of ports it extends, and from where.
LEMMA WorkPorts ==
  ASSUME TypeOK, NEW w \in Workers, WorkStep(w)
  PROVE  \/ /\ \A t \in Targets, c \in Buckets :
                 target_results'[t].ports[c] = target_results[t].ports[c]
            /\ worker[w].pc # "record"
            /\ Leaves(w) => \/ worker[w].pc = "name"
                            \/ P(w) \in Recorded(target_results[T(w)], "open_ports")
         \/ /\ worker[w].pc \in {"record", "give_up"}
            /\ worker'[w].pc \notin Unsettled
            /\ \E b \in Printed :
                 /\ worker[w].pc = "record" => b = worker[w].bucket
                 /\ \E S : Lists(w, {b}, S)
<1>1. Leaves(w) => worker'[w].pc = "idle"
  BY WorkMoves
<1>2. {"idle", "name"} \cap Unsettled = {}
  BY DEF Unsettled, Asking
<1>3. CASE AppendsPort(w)
  <2>1. worker'[w].pc = "name"
    BY <1>3 DEF AppendsPort, Goes
  <2>2. worker[w].bucket \in Printed
    BY DEF TypeOK, Threads
  <2> QED
    BY <1>2, <1>3, <2>1, <2>2 DEF AppendsPort, On
<1>4. CASE AppendsService(w)
  <2>1. Lists(w, {}, {worker[w].bucket}) /\ worker[w].pc = "name"
    BY <1>4 DEF AppendsService, On
  <2>2. \A t \in Targets, c \in Buckets :
          target_results'[t].ports[c] = target_results[t].ports[c]
    BY <2>1 DEF Lists
  <2> QED
    BY <2>1, <2>2
<1>5. CASE AppendsBoth(w)
  BY <1>1, <1>2, <1>5, PrintedAreBuckets DEF AppendsBoth, On
<1>6. CASE AppendsNothing(w)
  <2>1. target_results' = target_results /\ worker[w].pc # "record"
    BY <1>6 DEF AppendsNothing, On, Asking
  <2>2. ASSUME Leaves(w)
        PROVE  P(w) \in Recorded(target_results[T(w)], "open_ports")
    <3>1. "idle" \notin Asking \cup {"record", "give_up"}
      BY DEF Asking
    <3>2. ASSUME NEW l, NEW b, Goes(w, l, b) PROVE worker'[w].pc = l
      BY <3>2 DEF Goes
    <3> QED
      BY <1>1, <1>6, <2>2, <3>1, <3>2 DEF AppendsNothing
  <2> QED
    BY <2>1, <2>2
<1> QED
  BY <1>3, <1>4, <1>5, <1>6 DEF WorkStep

LEMMA WorkVerdict ==
  ASSUME TypeOK, Stage, VerdictInv, NEW w \in Workers, WorkStep(w)
  PROVE  VerdictInv'
<1>1. /\ ~On(w, "idle") /\ UNCHANGED <<scan, jobs, taken>>
      /\ \A v \in Workers \ {w} : worker'[v] = worker[v]
      /\ T(w) \in Targets /\ P(w) \in Ports
      /\ worker[w].job \in DOMAIN jobs /\ worker[w].job \in 1..taken /\ worker[w].job # 0
      /\ \A v \in Workers : worker[v].pc = "idle" <=> worker[v].job = 0
  BY BusyWorker DEF WorkStep, progress, TypeOK, On
<1>2. /\ Leaves(w) => worker'[w].pc = "idle" /\ worker'[w].job = 0
      /\ Leaves(w) \/ worker'[w].job = worker[w].job
  BY WorkMoves
<1>3. Distinct'
  BY <1>1, <1>2 DEF VerdictInv, Distinct
<1>4. (NoneTwice <=> NoneTwice') /\ "idle" \notin Unsettled
  BY <1>1 DEF NoneTwice, Unsettled, Asking
<1> SUFFICES ASSUME NoneTwice
             PROVE  /\ \A t \in Targets, p \in Ports :
                         /\ \A b, c \in Buckets : Seen(t, p, b)' /\ Seen(t, p, c)' => b = c
                         /\ ~Taken(t, p)' => Unseen(t, p)'
                    /\ \A v \in Workers : worker'[v].pc \in Unsettled => Unseen(T(v), P(v))'
                    /\ \A t \in Targets, b \in Buckets : NoTwice(target_results'[t].ports[b])
  BY <1>3, <1>4 DEF VerdictInv
<1>5. /\ \A t \in Targets, p \in Ports :
            /\ \A b, c \in Buckets : Seen(t, p, b) /\ Seen(t, p, c) => b = c
            /\ ~Taken(t, p) => Unseen(t, p)
      /\ \A v \in Workers : worker[v].pc \in Unsettled => Unseen(T(v), P(v))
      /\ \A t \in Targets, b \in Buckets : NoTwice(target_results[t].ports[b])
  BY DEF VerdictInv
<1>6. \A t, p : Taken(t, p)' <=> Taken(t, p)
  BY <1>1 DEF Taken
<1>7. \A v \in Workers \ {w} : T(v)' = T(v) /\ P(v)' = P(v)
  BY <1>1 DEF T, P, Job
<1>8. ~Leaves(w) => T(w)' = T(w) /\ P(w)' = P(w)
  BY <1>1, <1>2 DEF T, P, Job
<1>9. CASE /\ \A t \in Targets, c \in Buckets :
                target_results'[t].ports[c] = target_results[t].ports[c]
           /\ worker[w].pc # "record"
  <2>1. ASSUME NEW t \in Targets, NEW p
        PROVE  /\ \A c \in Buckets : Seen(t, p, c)' <=> Seen(t, p, c)
               /\ Unseen(t, p)' <=> Unseen(t, p)
    BY <1>9 DEF Unseen, Seen, Recorded
  <2>2. ASSUME NEW t \in Targets, NEW p \in Ports
        PROVE  /\ \A b, c \in Buckets : Seen(t, p, b)' /\ Seen(t, p, c)' => b = c
               /\ ~Taken(t, p)' => Unseen(t, p)'
    BY <1>5, <1>6, <2>1
  <2>3. ASSUME NEW v \in Workers, worker'[v].pc \in Unsettled
        PROVE  Unseen(T(v), P(v))'
    <3>1. v # w => worker[v].pc \in Unsettled
      BY <1>1, <2>3
    <3>2. v = w => ~Leaves(w) /\ worker[w].pc \in Asking
      BY <1>2, <1>4, <1>9, <2>3, WorkMoves
    <3>3. worker[v].pc \in Unsettled /\ T(v)' = T(v) /\ P(v)' = P(v)
      BY <1>7, <1>8, <3>1, <3>2 DEF Unsettled
    <3>4. T(v) \in Targets /\ P(v) \in Ports
      <4>1. ~On(v, "idle")
        BY <1>4, <3>3 DEF On
      <4> QED
        BY <4>1, BusyWorker
    <3>5. PICK t \in Targets, p \in Ports : t = T(v) /\ p = P(v)
      BY <3>4
    <3>6. Unseen(t, p)
      BY <1>5, <3>3, <3>5
    <3>7. Unseen(t, p)'
      BY <2>1, <3>6
    <3> QED
      BY <3>3, <3>5, <3>7 DEF Unseen, Seen
  <2> QED
    BY <1>5, <1>9, <2>2, <2>3
<1>10. CASE /\ worker[w].pc \in {"record", "give_up"}
            /\ worker'[w].pc \notin Unsettled
            /\ \E b \in Printed : \E S : Lists(w, {b}, S)
  <2>1. PICK b \in Buckets : \E S : Lists(w, {b}, S)
    BY <1>10, PrintedAreBuckets
  <2>2. PICK S : Lists(w, {b}, S)
    BY <2>1
  <2>3. PICK t0 \in Targets, p0 \in Ports : t0 = T(w) /\ p0 = P(w)
    BY <1>1
  <2>4. Unseen(t0, p0)
    BY <1>5, <1>10, <2>3 DEF Unsettled
  <2>5. ASSUME NEW t \in Targets, NEW c \in Buckets
        PROVE  Recorded(target_results'[t], c) =
                 Recorded(target_results[t], c) \cup (IF t = t0 /\ c = b THEN {p0} ELSE {})
    BY <1>1, <2>2, <2>3, ListsRecorded
  <2>6. ASSUME NEW t \in Targets, NEW p, NEW c \in Buckets
        PROVE  Seen(t, p, c)' <=> Seen(t, p, c) \/ (t = t0 /\ p = p0 /\ c = b)
    BY <2>5 DEF Seen
  <2>7. Taken(t0, p0)
    BY <1>1, <2>3 DEF Taken, T, P, Job
  <2>8. ASSUME NEW t \in Targets, NEW p \in Ports
        PROVE  /\ \A a, c \in Buckets : Seen(t, p, a)' /\ Seen(t, p, c)' => a = c
               /\ ~Taken(t, p)' => Unseen(t, p)'
    BY <1>5, <1>6, <2>4, <2>6, <2>7 DEF Unseen
  <2>9. ASSUME NEW v \in Workers, worker'[v].pc \in Unsettled
        PROVE  Unseen(T(v), P(v))'
    <3>1. v # w /\ worker[v].pc \in Unsettled
      BY <1>1, <1>10, <2>9
    <3>2. ~On(v, "idle")
      BY <1>4, <3>1 DEF On
    <3>3. worker[v].job \in DOMAIN jobs /\ T(v) \in Targets /\ P(v) \in Ports
      BY <3>2, BusyWorker
    <3>4. PICK t \in Targets, p \in Ports : t = T(v) /\ p = P(v)
      BY <3>3
    <3>5. worker[v].job # worker[w].job
      BY <1>1, <3>1 DEF VerdictInv, Distinct
    <3>6. ~(t = t0 /\ p = p0)
      <4> SUFFICES ASSUME t = t0, p = p0 PROVE FALSE
        OBVIOUS
      <4>1. Key(jobs[worker[v].job]) = Key(jobs[worker[w].job])
        BY <2>3, <3>4 DEF Key, T, P, Job
      <4> QED
        BY <1>1, <3>3, <3>5, <4>1, JobsApart
    <3>7. Unseen(t, p)
      BY <1>5, <3>1, <3>4
    <3>8. Unseen(t, p)'
      BY <2>6, <3>6, <3>7 DEF Unseen
    <3>9. T(v)' = t /\ P(v)' = p
      BY <1>7, <3>1, <3>4
    <3> QED
      BY <3>8, <3>9 DEF Unseen, Seen
  <2>10. ASSUME NEW t \in Targets, NEW c \in Buckets
         PROVE  NoTwice(target_results'[t].ports[c])
    <3> DEFINE q == target_results[t].ports[c]
    <3>1. q \in Seq(Ports) /\ NoTwice(q)
      BY <1>5 DEF TypeOK, Results
    <3>2. target_results'[t].ports[c] = IF t = t0 /\ c = b THEN Append(q, p0) ELSE q
      BY <2>2, <2>3 DEF Lists
    <3>3. t = t0 /\ c = b => \A i \in DOMAIN q : q[i] # p0
      BY <2>4 DEF Unseen, Seen, Recorded
    <3> HIDE DEF q
    <3>4. t = t0 /\ c = b => NoTwice(Append(q, p0))
      BY <3>1, <3>3, AppendNoTwice
    <3> QED
      BY <3>1, <3>2, <3>4
  <2> QED
    BY <2>8, <2>9, <2>10
<1> QED
  BY <1>9, <1>10, WorkPorts

LEMMA NextVerdict == TypeOK /\ Stage /\ VerdictInv /\ [Next]_vars => VerdictInv'
<1> SUFFICES ASSUME TypeOK, Stage, VerdictInv, [Next]_vars PROVE VerdictInv'
  OBVIOUS
<1>1. /\ scan' = scan /\ (NoneTwice <=> NoneTwice') /\ "idle" \notin Unsettled
      /\ "first probe" \in Unsettled /\ taken \in Nat
      /\ \A w \in Workers : worker[w].pc = "idle" <=> worker[w].job = 0
      /\ \A w \in Workers : worker[w].job \in 0..taken
  <2>1. scan' = scan
    BY ScanStays
  <2>2. NoneTwice <=> NoneTwice'
    BY <2>1 DEF NoneTwice
  <2>3. "idle" \notin Unsettled /\ "first probe" \in Unsettled
    BY DEF Unsettled, Asking
  <2>4. taken \in Nat
    BY JobsType DEF TypeOK
  <2> QED
    BY <2>1, <2>2, <2>3, <2>4 DEF TypeOK, On, Threads
<1>2. CASE UNCHANGED <<target_results, taken, jobs, worker>>
  BY <1>1, <1>2 DEF VerdictInv, Distinct, Seen, Unseen, Taken, T, P, Job
<1>3. CASE StartScan
  <2>1. /\ UNCHANGED <<target_results, taken, worker>>
        /\ phase = "test"
    BY <1>3 DEF StartScan
  <2>2. target_results = [t \in Targets |-> initialize_target_results] /\ Quiet
    BY <2>1 DEF Stage
  <2>3. \A w \in Workers : worker[w].pc = "idle"
    BY <2>2 DEF Quiet, On
  <2> QED
    BY <1>1, <2>1, <2>2, <2>3, NothingSeen DEF VerdictInv, Distinct, Seen, Unseen
<1>4. CASE ReportTarget
  <2>1. UNCHANGED <<taken, worker, jobs>> /\ phase = "report"
    BY <1>4 DEF ReportTarget
  <2>2. \A w \in Workers : worker'[w].pc = "idle"
    BY <2>1 DEF Stage, Quiet, On
  <2>3. \A t \in Targets : \/ target_results'[t] = target_results[t]
                           \/ target_results'[t] = SyncAndDeduplicate(target_results[t])
    BY <1>4 DEF ReportTarget, Write, TypeOK
  <2>4. ASSUME NEW t \in Targets, NEW b \in Buckets
        PROVE  /\ Recorded(target_results'[t], b) \subseteq Recorded(target_results[t], b)
               /\ NoTwice(target_results[t].ports[b]) => NoTwice(target_results'[t].ports[b])
    <3> DEFINE s == SyncAndDeduplicate(target_results[t])
    <3>1. target_results[t] \in Results
      BY DEF TypeOK
    <3>2. Recorded(s, b) \subseteq Recorded(target_results[t], b)
      BY <3>1, SyncAndDeduplicateType
    <3>3. CASE b \in SyncedBuckets
      <4>1. Clean(s.ports[b], s.services[b])
        BY <3>1, <3>3, SyncClean DEF CleanRecord
      <4>2. NoTwice(s.ports[b])
        BY <4>1 DEF Clean, NoTwice
      <4> QED
        BY <2>3, <3>2, <4>2
    <3>4. CASE b \notin SyncedBuckets
      <4>1. s.ports[b] = target_results[t].ports[b]
        BY <3>1, <3>4, SyncFields
      <4> QED
        BY <2>3, <3>2, <4>1
    <3> QED
      BY <3>3, <3>4
  <2>5. \A t, p : Taken(t, p)' <=> Taken(t, p)
    BY <2>1 DEF Taken
  <2> QED
    BY <1>1, <2>1, <2>2, <2>4, <2>5 DEF VerdictInv, Distinct, Seen, Unseen
<1>5. ASSUME NEW w \in Workers, Take(w)
      PROVE  VerdictInv'
  <2>1. /\ worker[w].job = 0 /\ taken' = taken + 1
        /\ worker'[w].job = taken + 1 /\ worker'[w].pc = "first probe"
        /\ \A v \in Workers \ {w} : worker'[v] = worker[v]
        /\ UNCHANGED <<target_results, jobs>> /\ taken + 1 \in DOMAIN jobs
    BY <1>5, TakeType
  <2>2. Distinct'
    <3>1. ASSUME NEW v \in Workers PROVE worker[v].job # taken + 1
      <4>1. worker[v].job \in 0..taken /\ taken \in Nat
        BY <1>1
      <4> DEFINE j == worker[v].job
      <4>2. j \in 0..taken
        BY <4>1
      <4> HIDE DEF j
      <4>3. j # taken + 1
        BY <4>1, <4>2
      <4> QED
        BY <4>3 DEF j
    <3>2. ASSUME NEW v \in Workers, NEW u \in Workers \ {v}, worker'[u].job = worker'[v].job
          PROVE  worker'[v].job = 0
      <4>1. u = w \/ worker'[u] = worker[u]
        BY <2>1
      <4>2. v = w \/ worker'[v] = worker[v]
        BY <2>1
      <4>3. u # w /\ v # w
        BY <2>1, <3>1, <3>2, <4>1, <4>2
      <4> QED
        BY <3>2, <4>1, <4>2, <4>3 DEF VerdictInv, Distinct
    <3> QED
      BY <3>2 DEF Distinct
  <2> SUFFICES ASSUME NoneTwice
               PROVE  /\ \A t \in Targets, p \in Ports : ~Taken(t, p)' => Unseen(t, p)
                      /\ \A v \in Workers : worker'[v].pc \in Unsettled => Unseen(T(v), P(v))'
    BY <1>1, <2>1, <2>2 DEF VerdictInv, Seen, Unseen
  <2>3. ASSUME NEW t, NEW p, Taken(t, p)
        PROVE  Taken(t, p)'
    <3>1. taken \in Nat
      BY <1>1
    <3>2. 1..taken \subseteq 1 .. taken + 1
      BY <3>1
    <3> QED
      BY <2>1, <2>3, <3>2 DEF Taken
  <2>4. ASSUME NEW v \in Workers, v # w, worker'[v].pc \in Unsettled
        PROVE  Unseen(T(v), P(v))'
    BY <2>1, <2>4 DEF VerdictInv, Seen, Unseen, T, P, Job
  <2>5. Unseen(T(w), P(w))'
    <3>1. PICK t \in Targets, p \in Ports : t = jobs[taken + 1].target /\ p = jobs[taken + 1].port
      BY <2>1, JobsType
    <3>2. ~Taken(t, p)
      <4> SUFFICES ASSUME NEW n \in 1..taken, jobs[n].target = t, jobs[n].port = p PROVE FALSE
        BY DEF Taken
      <4>1. n \in DOMAIN jobs /\ n # taken + 1
        <5> DEFINE l == Len(jobs)
        <5>1. l \in Nat /\ taken \in 0..l /\ DOMAIN jobs = 1..l
          BY JobsType DEF TypeOK
        <5> HIDE DEF l
        <5>2. n \in 1..l /\ n # taken + 1
          BY <5>1
        <5> QED
          BY <5>1, <5>2
      <4>2. Key(jobs[n]) = Key(jobs[taken + 1])
        BY <3>1 DEF Key
      <4> QED
        BY <2>1, <4>1, <4>2, JobsApart
    <3>3. Unseen(t, p)
      BY <3>2 DEF VerdictInv
    <3>4. T(w)' = t /\ P(w)' = p
      BY <2>1, <3>1 DEF T, P, Job
    <3> QED
      BY <2>1, <3>3, <3>4 DEF Unseen, Seen
  <2> QED
    BY <2>3, <2>4, <2>5 DEF VerdictInv
<1>6. ASSUME NEW w \in Workers, Step(w), ~Take(w)
      PROVE  VerdictInv'
  BY <1>6, WorkStepEffect, WorkVerdict
<1>7. CASE UNCHANGED vars \/ TestZombie \/ TestRaises \/ FinishScan \/ FinishReport \/ Zombie
  <2>1. UNCHANGED <<target_results, taken, jobs, worker>>
    BY <1>7 DEF vars, progress, TestZombie, TestRaises, FinishScan, FinishReport, Zombie,
       ZombieResets, ZombieChatters
  <2> QED
    BY <1>2, <2>1
<1> QED
  BY <1>3, <1>4, <1>5, <1>6, <1>7 DEF Next, Main, Terminated

\* However many threads share the zombies and however many attempts raise, a port of a scan
\* that names nothing twice stands in one bucket and once: an attempt that raises has
\* recorded nothing, and the slices of the zombies have no port in common.
THEOREM OneVerdictHolds == Spec => []OneVerdict
<1> DEFINE Inv == TypeOK /\ Stage /\ VerdictInv
<1>1. Init => Inv
  BY InitType, InitStage, InitVerdict
<1>2. Inv /\ [Next]_vars => Inv'
  BY NextType, NextStage, NextVerdict
<1>3. Inv => OneVerdict
  <2> SUFFICES ASSUME Inv, NoneTwice, NEW k \in Asked
               PROVE  /\ Cardinality(VerdictsOf(k)) <= 1
                      /\ \A b \in VerdictsOf(k) :
                           Cardinality({i \in DOMAIN target_results[k[1]].ports[b] :
                                          target_results[k[1]].ports[b][i] = k[2]}) = 1
    BY DEF OneVerdict
  <2>1. k[1] \in Targets /\ k[2] \in Ports
    BY ScanFields DEF Asked, TypeOK
  <2>2. PICK t \in Targets, p \in Ports : t = k[1] /\ p = k[2]
    BY <2>1
  <2>3. /\ \A b, c \in Buckets : Seen(t, p, b) /\ Seen(t, p, c) => b = c
        /\ \A b \in Buckets : NoTwice(target_results[t].ports[b])
        /\ VerdictsOf(k) = {b \in Buckets : Seen(t, p, b)}
    BY <2>2 DEF VerdictInv, VerdictsOf, Seen
  <2>4. Cardinality(VerdictsOf(k)) <= 1
    <3>1. CASE VerdictsOf(k) = {}
      BY <3>1, FS_EmptySet
    <3>2. CASE VerdictsOf(k) # {}
      <4>1. PICK b : VerdictsOf(k) = {b}
        BY <2>3, <3>2
      <4>2. Cardinality(VerdictsOf(k)) = 1
        BY <4>1, FS_Singleton
      <4> QED
        BY <4>2
    <3> QED
      BY <3>1, <3>2
  <2>5. ASSUME NEW b \in VerdictsOf(k)
        PROVE  Cardinality({i \in DOMAIN target_results[t].ports[b] :
                              target_results[t].ports[b][i] = p}) = 1
    <3> DEFINE q == target_results[t].ports[b]
               I == {i \in DOMAIN q : q[i] = p}
    <3>1. NoTwice(q) /\ \E i \in DOMAIN q : q[i] = p
      BY <2>3 DEF Seen, Recorded
    <3> HIDE DEF q
    <3>2. PICK i : I = {i}
      BY <3>1 DEF NoTwice
    <3>3. Cardinality(I) = 1
      BY <3>2, FS_Singleton
    <3> QED
      BY <3>3 DEF q
  <2> QED
    BY <2>2, <2>4, <2>5
<1> QED
  BY <1>1, <1>2, <1>3, PTL DEF Spec

-----------------------------------------------------------------------------
(* As many services as ports *)

\* The threads that have appended a port to bucket b of target t and not yet the service.
Owing(t, b) == {w \in Workers : On(w, "name") /\ T(w) = t /\ worker[w].bucket = b}

LEMMA OwingFinite ==
  ASSUME NEW t, NEW b
  PROVE  IsFiniteSet(Owing(t, b)) /\ Cardinality(Owing(t, b)) \in Nat
<1>1. IsFiniteSet(Workers)
  BY ScanAssumption, FS_Interval DEF Workers
<1>2. Owing(t, b) \in SUBSET Workers
  BY DEF Owing
<1> QED
  BY <1>1, <1>2, FS_Subset, FS_CardinalityType

LEMMA WorkOwing ==
  ASSUME NEW w \in Workers, WorkStep(w), NEW t, NEW b
  PROVE  /\ Owing(t, b)' = IF worker'[w].pc = "name" /\ T(w) = t /\ worker'[w].bucket = b
                           THEN Owing(t, b) \cup {w} ELSE Owing(t, b) \ {w}
         /\ w \in Owing(t, b) <=> On(w, "name") /\ T(w) = t /\ worker[w].bucket = b
<1>1. jobs' = jobs /\ \A v \in Workers \ {w} : worker'[v] = worker[v]
  BY DEF WorkStep, progress
<1>2. worker'[w].pc = "name" => worker'[w].job = worker[w].job
  BY WorkMoves
<1> QED
  BY <1>1, <1>2 DEF Owing, On, T, Job

\* No step but that of a busy worker concerns those threads.
LEMMA OthersOwing ==
  ASSUME TypeOK, Stage, [Next]_vars, \A w \in Workers : Step(w) => Take(w), NEW t, NEW b
  PROVE  Owing(t, b)' = Owing(t, b)
<1>1. CASE UNCHANGED vars \/ Main \/ Zombie
  <2>1. CASE StartScan
    <3>1. worker' = worker /\ phase = "test"
      BY <2>1 DEF StartScan
    <3>2. \A w \in Workers : worker[w].pc = "idle" /\ worker'[w].pc = "idle"
      BY <3>1 DEF Stage, Quiet, On
    <3> QED
      BY <3>2 DEF Owing, On
  <2>2. CASE ~StartScan
    <3>1. UNCHANGED <<worker, jobs>>
      BY <1>1, <2>2 DEF Main, TestZombie, TestRaises, FinishScan, ReportTarget, FinishReport,
         Zombie, ZombieResets, ZombieChatters, vars, progress
    <3> QED
      BY <3>1 DEF Owing, On, T, Job
  <2> QED
    BY <2>1, <2>2
<1>2. ASSUME NEW w \in Workers, Take(w)
      PROVE  Owing(t, b)' = Owing(t, b)
  <2>1. /\ worker[w].pc = "idle" /\ worker'[w].pc = "first probe" /\ jobs' = jobs
        /\ \A v \in Workers \ {w} : worker'[v] = worker[v]
    BY <1>2, TakeType DEF On
  <2> QED
    BY <2>1 DEF Owing, On, T, Job
<1> QED
  BY <1>1, <1>2 DEF Next, Terminated

\* Every port has a service, or a thread that is about to append one.
Lengths ==
  \A t \in Targets, b \in Buckets :
    Len(target_results[t].ports[b]) =
      Len(target_results[t].services[b]) + Cardinality(Owing(t, b))

LEMMA InitLengths == Init => Lengths
<1> SUFFICES ASSUME Init, NEW t \in Targets, NEW b \in Buckets
             PROVE  Len(target_results[t].ports[b]) =
                      Len(target_results[t].services[b]) + Cardinality(Owing(t, b))
  BY DEF Lengths
<1>1. Len(target_results[t].ports[b]) = 0 /\ Len(target_results[t].services[b]) = 0
  BY DEF Init, initialize_target_results
<1>2. Owing(t, b) = {} /\ Cardinality({}) = 0
  BY FS_EmptySet DEF Init, Owing, On, Idle
<1> QED
  BY <1>1, <1>2

LEMMA WorkLengths ==
  ASSUME TypeOK, Lengths, NEW w \in Workers, WorkStep(w)
  PROVE  Lengths'
<1> DEFINE n(t, b) == Cardinality(Owing(t, b))
<1>1. /\ ~On(w, "idle") /\ T(w) \in Targets /\ P(w) \in Ports
      /\ Leaves(w) => worker'[w].pc = "idle"
  BY BusyWorker, WorkMoves DEF WorkStep
<1>2. ASSUME NEW t, NEW b
      PROVE  /\ Owing(t, b)' =
                  IF worker'[w].pc = "name" /\ T(w) = t /\ worker'[w].bucket = b
                  THEN Owing(t, b) \cup {w} ELSE Owing(t, b) \ {w}
             /\ w \in Owing(t, b) <=> On(w, "name") /\ T(w) = t /\ worker[w].bucket = b
  BY WorkOwing
<1>3. ASSUME NEW t, NEW b
      PROVE  /\ n(t, b) \in Nat
             /\ w \notin Owing(t, b) => Cardinality(Owing(t, b) \cup {w}) = n(t, b) + 1
             /\ w \in Owing(t, b) => Cardinality(Owing(t, b) \ {w}) = n(t, b) - 1
  BY OwingFinite, FS_AddElement, FS_RemoveElement
<1> SUFFICES ASSUME NEW t \in Targets, NEW c \in Buckets
             PROVE  Len(target_results'[t].ports[c]) =
                      Len(target_results'[t].services[c]) + Cardinality(Owing(t, c)')
  BY DEF Lengths
<1> DEFINE ps == target_results[t].ports[c]
           ss == target_results[t].services[c]
           Goal == Len(target_results'[t].ports[c]) =
                     Len(target_results'[t].services[c]) + Cardinality(Owing(t, c)')
<1>4. /\ ps \in Seq(Ports) /\ ss \in Seq(Services)
      /\ Len(ps) = Len(ss) + n(t, c) /\ n(t, c) \in Nat
      /\ Len(ps) \in Nat /\ Len(ss) \in Nat
  <2>1. ps \in Seq(Ports) /\ ss \in Seq(Services)
    BY DEF TypeOK, Results
  <2>2. Len(ps) = Len(ss) + n(t, c) /\ n(t, c) \in Nat
    BY <1>3 DEF Lengths
  <2> HIDE DEF ps, ss
  <2> QED
    BY <2>1, <2>2
<1>5. Len(Append(ps, P(w))) = Len(ps) + 1 /\ \A v \in Services : Len(Append(ss, v)) = Len(ss) + 1
  BY <1>1, <1>4, AppendLen
<1>6. ASSUME NEW B, NEW S, Lists(w, B, S)
      PROVE  /\ Len(target_results'[t].ports[c]) =
                  Len(ps) + (IF T(w) = t /\ c \in B THEN 1 ELSE 0)
             /\ Len(target_results'[t].services[c]) =
                  Len(ss) + (IF T(w) = t /\ c \in S THEN 1 ELSE 0)
  <2>1. /\ target_results'[t].ports[c] =
             IF T(w) = t /\ c \in B THEN Append(ps, P(w)) ELSE ps
        /\ IF T(w) = t /\ c \in S
           THEN \E v \in Services : target_results'[t].services[c] = Append(ss, v)
           ELSE target_results'[t].services[c] = ss
    BY <1>6 DEF Lists
  <2> HIDE DEF ps, ss
  <2> QED
    BY <1>4, <1>5, <2>1
<1> DEFINE k == n(t, c)
<1>7. /\ w \notin Owing(t, c) => Cardinality(Owing(t, c) \cup {w}) = k + 1
      /\ w \in Owing(t, c) => Cardinality(Owing(t, c) \ {w}) = k - 1
      /\ w \notin Owing(t, c) => Owing(t, c) \ {w} = Owing(t, c)
      /\ k \in Nat /\ Len(ps) = Len(ss) + k /\ Cardinality(Owing(t, c)) = k
  BY <1>3, <1>4
<1> HIDE DEF ps, ss, k
<1>8. CASE AppendsPort(w)
  <2>1. PICK b \in Buckets : Lists(w, {b}, {}) /\ Goes(w, "name", b)
    BY <1>1, <1>8, BusyWorker DEF AppendsPort
  <2>2. worker'[w].pc = "name" /\ worker'[w].bucket = b /\ ~On(w, "name")
    BY <1>8, <2>1 DEF AppendsPort, Goes, On
  <2>3. Cardinality(Owing(t, c)') = k + (IF T(w) = t /\ c = b THEN 1 ELSE 0)
    <3>1. w \notin Owing(t, c)
      BY <1>2, <2>2
    <3>2. Owing(t, c)' = IF T(w) = t /\ c = b THEN Owing(t, c) \cup {w} ELSE Owing(t, c)
      BY <1>2, <2>2, <3>1
    <3> QED
      BY <1>7, <3>1, <3>2
  <2>4. /\ Len(target_results'[t].ports[c]) =
             Len(ps) + (IF T(w) = t /\ c \in {b} THEN 1 ELSE 0)
        /\ Len(target_results'[t].services[c]) =
             Len(ss) + (IF T(w) = t /\ c \in {} THEN 1 ELSE 0)
    BY <1>6, <2>1
  <2> QED
    BY <1>4, <1>7, <2>3, <2>4
<1>9. CASE AppendsService(w)
  <2>1. PICK b : b = worker[w].bucket
    OBVIOUS
  <2>2. Lists(w, {}, {b}) /\ On(w, "name") /\ worker'[w].pc = "idle"
    BY <1>1, <1>9, <2>1 DEF AppendsService
  <2>3. Cardinality(Owing(t, c)') = k - (IF T(w) = t /\ c = b THEN 1 ELSE 0)
    <3>1. w \in Owing(t, c) <=> T(w) = t /\ c = b
      BY <1>2, <2>1, <2>2
    <3>2. Owing(t, c)' = Owing(t, c) \ {w}
      BY <1>2, <2>2
    <3>3. CASE T(w) = t /\ c = b
      BY <1>7, <3>1, <3>2, <3>3
    <3>4. CASE ~(T(w) = t /\ c = b)
      <4>1. Owing(t, c)' = Owing(t, c)
        BY <1>7, <3>1, <3>2, <3>4
      <4>2. Cardinality(Owing(t, c)') = k /\ k \in Nat
        BY <1>7, <4>1
      <4>3. k = k - (IF T(w) = t /\ c = b THEN 1 ELSE 0)
        BY <3>4, <4>2
      <4> QED
        BY <4>2, <4>3
    <3> QED
      BY <3>3, <3>4
  <2>4. /\ Len(target_results'[t].ports[c]) =
             Len(ps) + (IF T(w) = t /\ c \in {} THEN 1 ELSE 0)
        /\ Len(target_results'[t].services[c]) =
             Len(ss) + (IF T(w) = t /\ c \in {b} THEN 1 ELSE 0)
    BY <1>6, <2>2
  <2> QED
    BY <1>4, <1>7, <2>3, <2>4
<1>10. CASE AppendsBoth(w)
  <2>1. PICK b \in Buckets : Lists(w, {b}, {b})
    BY <1>10, PrintedAreBuckets DEF AppendsBoth
  <2>2. worker'[w].pc = "idle" /\ ~On(w, "name")
    BY <1>1, <1>10 DEF AppendsBoth, On
  <2>3. Cardinality(Owing(t, c)') = k
    <3>1. Owing(t, c)' = Owing(t, c)
      BY <1>2, <1>7, <2>2
    <3> QED
      BY <1>7, <3>1
  <2>4. /\ Len(target_results'[t].ports[c]) =
             Len(ps) + (IF T(w) = t /\ c \in {b} THEN 1 ELSE 0)
        /\ Len(target_results'[t].services[c]) =
             Len(ss) + (IF T(w) = t /\ c \in {b} THEN 1 ELSE 0)
    BY <1>6, <2>1
  <2> QED
    BY <1>4, <1>7, <2>3, <2>4
<1>11. CASE AppendsNothing(w)
  <2>1. target_results' = target_results /\ ~On(w, "name") /\ worker'[w].pc # "name"
    <3>1. target_results' = target_results /\ worker[w].pc \in Asking \cup {"give_up"}
      BY <1>11 DEF AppendsNothing, On
    <3>2. "name" \notin Asking \cup {"give_up"}
      BY DEF Asking
    <3>3. worker'[w].pc # "name"
      <4>1. worker[w].pc # "record" /\ "name" \notin Unsettled
        BY <3>1 DEF Asking, Unsettled
      <4> QED
        BY <1>1, <4>1, WorkMoves
    <3> QED
      BY <3>1, <3>2, <3>3 DEF On
  <2>2. Cardinality(Owing(t, c)') = k
    <3>1. Owing(t, c)' = Owing(t, c)
      BY <1>2, <1>7, <2>1
    <3> QED
      BY <1>7, <3>1
  <2> QED
    BY <1>7, <2>1, <2>2 DEF ps, ss
<1> QED
  BY <1>8, <1>9, <1>10, <1>11 DEF WorkStep

\* The clean-up of the report takes no port from a list.
LEMMA ReportKeeps ==
  ASSUME TypeOK, Stage, Lengths, ReportTarget
  PROVE  \A t \in Targets, b \in Buckets :
           /\ Owing(t, b) = {}
           /\ Len(target_results[t].ports[b]) = Len(target_results[t].services[b])
           /\ Recorded(target_results'[t], b) = Recorded(target_results[t], b)
           /\ Len(target_results'[t].ports[b]) = Len(target_results'[t].services[b])
<1> TAKE t \in Targets, b \in Buckets
<1>1. Owing(t, b) = {} /\ Cardinality({}) = 0
  BY FS_EmptySet DEF ReportTarget, Stage, Quiet, Owing, On
<1>2. Len(target_results[t].services[b]) \in Nat /\ target_results[t] \in Results
  BY DEF TypeOK, Results
<1>3. Len(target_results[t].ports[b]) = Len(target_results[t].services[b])
  <2> DEFINE x == Len(target_results[t].ports[b])
             y == Len(target_results[t].services[b])
             k == Cardinality(Owing(t, b))
  <2>1. x = y + k
    BY DEF Lengths
  <2>2. k = 0 /\ y \in Nat
    BY <1>1, <1>2
  <2> HIDE DEF x, y, k
  <2>3. x = y
    BY <2>1, <2>2
  <2> QED
    BY <2>3 DEF x, y
<1> DEFINE s == SyncAndDeduplicate(target_results[t])
<1>4. Recorded(s, b) = Recorded(target_results[t], b) /\ Len(s.ports[b]) = Len(s.services[b])
  BY <1>2, <1>3, SyncEvens
<1>5. target_results'[t] = target_results[t] \/ target_results'[t] = s
  BY DEF ReportTarget, Write, TypeOK
<1> QED
  BY <1>1, <1>3, <1>4, <1>5

LEMMA NextLengths ==
  TypeOK /\ Stage /\ Lengths /\ [Next]_vars => Lengths'
<1> SUFFICES ASSUME TypeOK, Stage, Lengths, [Next]_vars PROVE Lengths'
  OBVIOUS
<1>1. ASSUME NEW w \in Workers, Step(w), ~Take(w)
      PROVE  Lengths'
  BY <1>1, WorkStepEffect, WorkLengths
<1>2. CASE \A w \in Workers : Step(w) => Take(w)
  <2>1. ASSUME NEW t, NEW b PROVE Owing(t, b)' = Owing(t, b)
    BY <1>2, OthersOwing
  <2>2. CASE ReportTarget
    <3>1. ASSUME NEW t \in Targets, NEW b \in Buckets
          PROVE  Len(target_results'[t].ports[b]) =
                   Len(target_results'[t].services[b]) + Cardinality(Owing(t, b)')
      <4>1. /\ Owing(t, b)' = {}
            /\ Len(target_results'[t].ports[b]) = Len(target_results'[t].services[b])
        BY <2>1, <2>2, ReportKeeps
      <4>2. target_results' \in [Targets -> Results]
        BY NextType DEF TypeOK
      <4>3. Len(target_results'[t].services[b]) \in Nat
        BY <4>2 DEF Results
      <4>4. Cardinality(Owing(t, b)') = 0
        BY <4>1, FS_EmptySet
      <4> DEFINE x == Len(target_results'[t].ports[b])
                 y == Len(target_results'[t].services[b])
      <4>5. x = y /\ y \in Nat
        BY <4>1, <4>3
      <4> HIDE DEF x, y
      <4>6. x = y + Cardinality(Owing(t, b)')
        BY <4>4, <4>5
      <4> QED
        BY <4>6 DEF x, y
    <3> QED
      BY <3>1 DEF Lengths
  <2>3. CASE target_results' = target_results
    BY <2>1, <2>3 DEF Lengths
  <2>4. ReportTarget \/ target_results' = target_results
    <3>1. CASE UNCHANGED vars \/ Main \/ Zombie
      BY <3>1 DEF Main, TestZombie, TestRaises, StartScan, FinishScan, FinishReport, Zombie,
         ZombieResets, ZombieChatters, vars
    <3>2. ASSUME NEW w \in Workers, Take(w) PROVE target_results' = target_results
      BY <3>2 DEF Take
    <3> QED
      BY <1>2, <3>1, <3>2 DEF Next, Terminated
  <2> QED
    BY <2>2, <2>3, <2>4
<1> QED
  BY <1>1, <1>2

-----------------------------------------------------------------------------
(* The zombies that answered *)

\* They are among those that were tried, and named no more often.
Tested ==
  /\ \A i \in DOMAIN good_zombies : \E j \in 1..tested : good_zombies[i] = scan.zombie_ips[j]
  /\ NoTwice(scan.zombie_ips) => NoTwice(good_zombies)

LEMMA InitTested == Init => Tested
BY DEF Init, Tested, NoTwice

LEMMA NextTested == TypeOK /\ Tested /\ [Next]_vars => Tested'
<1> SUFFICES ASSUME TypeOK, Tested, [Next]_vars PROVE Tested'
  OBVIOUS
<1>1. scan' = scan /\ good_zombies \in Seq(Zombies)
  BY ScanStays DEF TypeOK
<1>2. CASE UNCHANGED <<good_zombies, tested>>
  BY <1>1, <1>2 DEF Tested
<1>3. CASE TestZombie
  <2> DEFINE zs == scan.zombie_ips
             n == Len(zs)
             k == tested + 1
  <2>1. /\ tested \in 0..n /\ tested < n /\ tested' = k /\ n \in Nat
        /\ zs \in Seq(Zombies) /\ \A i \in 1..n : zs[i] \in Zombies
        /\ \/ good_zombies' = Append(good_zombies, zs[k])
           \/ good_zombies' = good_zombies
    BY <1>3, ScanFields DEF TestZombie, TypeOK
  <2>2. DOMAIN zs = 1..n
    BY <2>1
  <2> HIDE DEF n, zs
  <2>3. k \in 1..n /\ k \in 1..k /\ \A j \in 1..tested : j \in 1..k /\ j \in 1..n /\ j # k
    BY <2>1
  <2> HIDE DEF k
  <2>4. \A i \in DOMAIN good_zombies : \E j \in 1..tested : good_zombies[i] = zs[j]
    BY DEF Tested, zs
  <2>5. CASE good_zombies' = good_zombies
    <3>1. \A i \in DOMAIN good_zombies' : \E j \in 1..tested' : good_zombies'[i] = zs[j]
      BY <2>1, <2>3, <2>4, <2>5
    <3> QED
      BY <1>1, <2>5, <3>1 DEF Tested, zs
  <2>6. CASE good_zombies' = Append(good_zombies, zs[k])
    <3> DEFINE q == good_zombies
               z == zs[k]
               q1 == Append(q, z)
    <3>1. q \in Seq(Zombies) /\ z \in Zombies
      BY <1>1, <2>1, <2>3
    <3>2. ASSUME NoTwice(zs) PROVE NoTwice(q1)
      <4>1. NoTwice(q)
        BY <3>2 DEF Tested, zs
      <4>2. \A i \in DOMAIN q : q[i] # z
        BY <2>2, <2>3, <2>4, <3>2 DEF NoTwice
      <4> HIDE DEF q, z
      <4> QED
        BY <3>1, <4>1, <4>2, AppendNoTwice
    <3> HIDE DEF z
    <3>3. {q1[i] : i \in DOMAIN q1} = {q[i] : i \in DOMAIN q} \cup {z}
      BY <3>1, AppendElements
    <3> HIDE DEF q1
    <3>4. ASSUME NEW i \in DOMAIN q1 PROVE \E j \in 1..k : q1[i] = zs[j]
      <4>1. q1[i] \in {q[x] : x \in DOMAIN q} \/ q1[i] = z
        BY <3>3, <3>4
      <4> QED
        BY <2>3, <2>4, <4>1 DEF z
    <3>5. good_zombies' = q1
      BY <2>6 DEF q1, z
    <3> QED
      BY <1>1, <2>1, <3>2, <3>4, <3>5 DEF Tested, zs
  <2> QED
    BY <2>1, <2>5, <2>6 DEF k, zs
<1>4. UNCHANGED <<good_zombies, tested>> \/ TestZombie
  <2>1. CASE UNCHANGED vars \/ Main \/ Zombie
    BY <2>1 DEF Main, TestRaises, StartScan, FinishScan, ReportTarget, FinishReport, Zombie,
       ZombieResets, ZombieChatters, vars, progress
  <2>2. ASSUME NEW w \in Workers, Step(w) PROVE UNCHANGED <<good_zombies, tested>>
    <3>1. CASE Take(w)
      BY <3>1 DEF Take
    <3>2. CASE ~Take(w)
      BY <2>2, <3>2, WorkStepEffect DEF WorkStep, progress
    <3> QED
      BY <3>1, <3>2
  <2> QED
    BY <2>1, <2>2 DEF Next, Terminated
<1> QED
  BY <1>2, <1>3, <1>4

\* Once the scan began, every port asked for has a call, if no zombie is named twice.
LEMMA EveryKeyCalled ==
  ASSUME TypeOK, Stage, Tested, NoTwice(scan.zombie_ips), good_zombies # <<>>
  PROVE  {Key(j) : j \in ToSet(Submitted(good_zombies))} = Asked
<1>1. scan \in ScanType /\ good_zombies \in Seq(Zombies) /\ NoTwice(good_zombies)
  BY ScanFields DEF TypeOK, Tested
<1>2. /\ \A j \in ToSet(Submitted(good_zombies)) : Key(j) \in Asked
      /\ \A k \in Asked : \E j \in ToSet(Submitted(good_zombies)) : Key(j) = k
  BY <1>1, SubmittedCalls
<1> QED
  BY <1>2

-----------------------------------------------------------------------------
(* A scan implements VerdictLedger *)

In(n, b) == Seen(jobs[n].target, jobs[n].port, b)
Held(n)  == \E w \in Workers : worker[w].job = n

\* A thread that owes a service left its port in the bucket of that service, and a job that
\* was taken is held by a thread or has a verdict, whatever raised.
Settled ==
  /\ \A n \in DOMAIN jobs, w \in Workers, b \in Printed :
       worker[w].job = n /\ worker[w].pc = "name" /\ worker[w].bucket = b => In(n, b)
  /\ \A n \in DOMAIN jobs : n <= taken => Held(n) \/ \E b \in Printed : In(n, b)

LEMMA InitSettled == Init => Settled
<1> SUFFICES ASSUME Init PROVE Settled
  OBVIOUS
<1>1. jobs = <<>>
  BY DEF Init
<1>2. DOMAIN jobs = {}
  BY <1>1
<1> QED
  BY <1>2 DEF Settled

\* The port of job n stands in bucket c after the step of w if it did or w added it.
LEMMA ListsIn ==
  ASSUME TypeOK, NEW w \in Workers, ~On(w, "idle"), jobs' = jobs,
         NEW B, NEW S, Lists(w, B, S),
         NEW n \in DOMAIN jobs, NEW c \in Buckets
  PROVE  In(n, c)' <=> \/ In(n, c)
                       \/ c \in B /\ Key(jobs[n]) = Key(jobs[worker[w].job])
<1>1. /\ jobs[n].target \in Targets
      /\ Key(jobs[n]) = Key(jobs[worker[w].job])
           <=> jobs[n].target = T(w) /\ jobs[n].port = P(w)
  BY JobsType DEF T, P, Job, Key
<1>2. PICK t \in Targets : t = jobs[n].target
  BY <1>1
<1>3. Recorded(target_results'[t], c) =
        Recorded(target_results[t], c) \cup (IF t = T(w) /\ c \in B THEN {P(w)} ELSE {})
  BY ListsRecorded
<1> QED
  BY <1>1, <1>2, <1>3 DEF In, Seen

\* What a thread leaves behind for its job.
LEMMA WorkSettles ==
  ASSUME TypeOK, Settled, NEW w \in Workers, WorkStep(w), NEW j, j = worker[w].job
  PROVE  /\ j \in DOMAIN jobs
         /\ \A n \in DOMAIN jobs, c \in Printed : In(n, c) => In(n, c)'
         /\ \A b \in Printed : worker'[w].pc = "name" /\ worker'[w].bucket = b => In(j, b)'
         /\ Leaves(w) => \E b \in Printed : In(j, b)'
<1>1. /\ j \in DOMAIN jobs /\ ~On(w, "idle") /\ jobs' = jobs
      /\ worker[w].bucket \in Printed /\ Printed \subseteq Buckets
      /\ jobs[j].target = T(w) /\ jobs[j].port = P(w) /\ T(w) \in Targets
  BY BusyWorker, PrintedAreBuckets DEF WorkStep, progress, TypeOK, Threads, T, P, Job
<1>2. /\ Leaves(w) => worker'[w].pc = "idle"
      /\ worker'[w].pc = "name" =>
           worker[w].pc = "record" /\ worker'[w].bucket = worker[w].bucket
  <2>1. "name" \notin Unsettled
    BY DEF Unsettled, Asking
  <2> QED
    BY <2>1, WorkMoves
<1>3. CASE /\ \A t \in Targets, c \in Buckets :
                target_results'[t].ports[c] = target_results[t].ports[c]
           /\ worker[w].pc # "record"
           /\ Leaves(w) => \/ worker[w].pc = "name"
                           \/ P(w) \in Recorded(target_results[T(w)], "open_ports")
  <2>1. \A n \in DOMAIN jobs, c \in Printed : In(n, c)' <=> In(n, c)
    BY <1>1, <1>3, JobsType DEF In, Seen, Recorded
  <2>2. Leaves(w) => worker[w].pc = "name" \/ In(j, "open_ports")
    <3>1. ASSUME Leaves(w), worker[w].pc # "name"
          PROVE  P(w) \in Recorded(target_results[T(w)], "open_ports")
      BY <1>3, <3>1
    <3> QED
      BY <1>1, <3>1 DEF In, Seen
  <2>3. worker[w].pc = "name" => In(j, worker[w].bucket)
    BY <1>1 DEF Settled
  <2> QED
    BY <1>1, <1>2, <1>3, <2>1, <2>2, <2>3, PrintedAreBuckets
<1>4. CASE /\ worker[w].pc \in {"record", "give_up"}
           /\ \E b \in Printed :
                /\ worker[w].pc = "record" => b = worker[w].bucket
                /\ \E S : Lists(w, {b}, S)
  <2>1. PICK b \in Printed : /\ worker[w].pc = "record" => b = worker[w].bucket
                             /\ \E S : Lists(w, {b}, S)
    BY <1>4
  <2>2. PICK S : Lists(w, {b}, S)
    BY <2>1
  <2>3. \A n \in DOMAIN jobs, c \in Buckets :
          In(n, c)' <=> In(n, c) \/ (c \in {b} /\ Key(jobs[n]) = Key(jobs[worker[w].job]))
    BY <1>1, <2>2, ListsIn
  <2>4. In(j, b)'
    BY <1>1, <2>3
  <2> QED
    BY <1>1, <1>2, <2>1, <2>3, <2>4
<1> QED
  BY <1>3, <1>4, WorkPorts

LEMMA NextSettled == TypeOK /\ Stage /\ Lengths /\ Settled /\ [Next]_vars => Settled'
<1> SUFFICES ASSUME TypeOK, Stage, Lengths, Settled, [Next]_vars PROVE Settled'
  OBVIOUS
<1>1. /\ taken \in Nat /\ DOMAIN jobs \subseteq Nat \ {0} /\ Printed \subseteq Buckets
      /\ \A n \in DOMAIN jobs : jobs[n].target \in Targets
  BY JobsType, PrintedAreBuckets DEF TypeOK
<1>2. CASE UNCHANGED <<target_results, taken, jobs, worker>>
  BY <1>2 DEF Settled, Held, In, Seen
<1>3. CASE StartScan
  <2>1. UNCHANGED <<taken, worker>> /\ phase = "test"
    BY <1>3 DEF StartScan
  <2>2. taken = 0 /\ \A w \in Workers : worker[w].pc = "idle"
    BY <2>1 DEF Stage, Quiet, On
  <2>3. DOMAIN jobs' \subseteq Nat \ {0}
    <3>1. jobs' \in Seq(Calls)
      BY NextType DEF TypeOK
    <3> QED
      BY <3>1
  <2>4. \A n \in DOMAIN jobs' : ~(n <= taken)
    BY <2>2, <2>3
  <2> QED
    BY <2>1, <2>2, <2>4 DEF Settled
<1>4. CASE ReportTarget
  <2>1. UNCHANGED <<taken, worker, jobs>>
    BY <1>4 DEF ReportTarget
  <2>2. \A n \in DOMAIN jobs, b \in Printed : In(n, b)' <=> In(n, b)
    BY <1>1, <1>4, <2>1, ReportKeeps DEF In, Seen
  <2> QED
    BY <2>1, <2>2 DEF Settled, Held
<1>5. ASSUME NEW w \in Workers, Take(w)
      PROVE  Settled'
  <2>1. /\ worker'[w].pc = "first probe" /\ worker'[w].job = taken + 1
        /\ worker[w].job = 0 /\ taken' = taken + 1
        /\ \A v \in Workers \ {w} : worker'[v] = worker[v]
        /\ target_results' = target_results /\ jobs' = jobs
    BY <1>5, TakeType
  <2>2. \A n \in DOMAIN jobs : (Held(n) /\ n # 0) \/ n = taken + 1 => Held(n)'
    BY <2>1 DEF Held
  <2>3. \A n \in DOMAIN jobs : n # 0 /\ (n <= taken + 1 => n <= taken \/ n = taken + 1)
    BY <1>1
  <2>4. \A n, b : In(n, b)' <=> In(n, b)
    BY <2>1 DEF In, Seen
  <2> QED
    BY <2>1, <2>2, <2>3, <2>4 DEF Settled
<1>6. ASSUME NEW w \in Workers, WorkStep(w)
      PROVE  Settled'
  <2>1. PICK j : j = worker[w].job
    OBVIOUS
  <2>2. /\ taken' = taken /\ jobs' = jobs
        /\ \A v \in Workers \ {w} : worker'[v] = worker[v]
        /\ Leaves(w) \/ worker'[w].job = j
        /\ worker'[w].pc = "name" => worker'[w].job = j
    BY <1>6, <2>1, WorkMoves DEF WorkStep, progress
  <2>3. /\ \A n \in DOMAIN jobs, c \in Printed : In(n, c) => In(n, c)'
        /\ \A b \in Printed : worker'[w].pc = "name" /\ worker'[w].bucket = b => In(j, b)'
        /\ Leaves(w) => \E b \in Printed : In(j, b)'
    BY <1>6, <2>1, WorkSettles
  <2>4. ASSUME NEW n \in DOMAIN jobs, NEW v \in Workers, NEW b \in Printed,
               worker'[v].job = n, worker'[v].pc = "name", worker'[v].bucket = b
        PROVE  In(n, b)'
    BY <2>2, <2>3, <2>4 DEF Settled
  <2>5. ASSUME NEW n \in DOMAIN jobs, n <= taken
        PROVE  Held(n)' \/ \E b \in Printed : In(n, b)'
    <3>1. CASE n = j
      BY <2>2, <2>3, <3>1 DEF Held
    <3>2. CASE n # j
      <4>1. Held(n) => Held(n)'
        BY <2>1, <2>2, <3>2 DEF Held
      <4> QED
        BY <2>3, <2>5, <4>1 DEF Settled
    <3> QED
      BY <3>1, <3>2
  <2> QED
    BY <2>2, <2>4, <2>5 DEF Settled
<1>7. CASE UNCHANGED vars \/ TestZombie \/ TestRaises \/ FinishScan \/ FinishReport \/ Zombie
  <2>1. UNCHANGED <<target_results, taken, jobs, worker>>
    BY <1>7 DEF vars, progress, TestZombie, TestRaises, FinishScan, FinishReport, Zombie,
       ZombieResets, ZombieChatters
  <2> QED
    BY <1>2, <2>1
<1> QED
  BY <1>3, <1>4, <1>5, <1>6, <1>7, WorkStepEffect DEF Next, Main, Terminated

Keys == Targets \X Ports
Given(k) == VerdictsOf(k) \cap Printed

\* What the ledger calls the phase of a scan.
LedgerPhase ==
  IF phase \in {"test", "scan"} THEN "open"
  ELSE IF phase = "cut_short" \/ good_zombies = <<>> THEN "withdrawn"
  ELSE "published"

\* The calls that have not returned.
Unfinished == {m \in DOMAIN jobs : m > taken \/ \E v \in Workers : worker[v].job = m}

LEMMA PendingOfJobs ==
  /\ ~(phase \in {"test", "cut_short"} \/ good_zombies = <<>>) =>
       PendingKeys = {Key(jobs[n]) : n \in Unfinished}
  /\ phase \in {"test", "cut_short"} \/ good_zombies = <<>> => PendingKeys = Asked
BY DEF PendingKeys, Unfinished, Key

LEMMA AskedAreKeys == ASSUME scan \in Scans PROVE Asked \subseteq Keys
BY ScanFields DEF Asked, Keys

\* Before the scan no port has a verdict.
LEMMA NothingGiven ==
  ASSUME target_results = [t \in Targets |-> initialize_target_results], NEW k \in Keys
  PROVE  VerdictsOf(k) = {} /\ Given(k) = {}
<1>1. k[1] \in Targets
  BY DEF Keys
<1>2. PICK t \in Targets : t = k[1]
  BY <1>1
<1>3. \A b \in Buckets : Recorded(target_results[t], b) = {}
  BY NothingSeen
<1> QED
  BY <1>2, <1>3 DEF VerdictsOf, Given

\* The key of the job a thread holds is pending, and stays so until it lets go of the job.
LEMMA PendingWork ==
  ASSUME TypeOK, Stage, NEW w \in Workers, WorkStep(w), NEW k, k = Key(jobs[worker[w].job])
  PROVE  /\ phase = "scan" /\ phase' = "scan"
         /\ k \in PendingKeys /\ k \in Keys /\ k = <<T(w), P(w)>>
         /\ PendingKeys' = PendingKeys
              \/ (Leaves(w) /\ PendingKeys' = PendingKeys \ {k})
<1> DEFINE j == worker[w].job
<1>1. /\ j \in DOMAIN jobs /\ jobs' = jobs /\ taken' = taken /\ good_zombies' = good_zombies
      /\ phase' = phase /\ ~On(w, "idle")
      /\ \A v \in Workers \ {w} : worker'[v] = worker[v]
      /\ Leaves(w) \/ worker'[w].job = j
      /\ Leaves(w) => worker'[w].job = 0
  BY BusyWorker, WorkMoves DEF WorkStep, progress
<1>2. phase = "scan" /\ good_zombies # <<>>
  BY <1>1 DEF Stage, Quiet
<1>3. k \in Keys /\ k = <<T(w), P(w)>>
  BY <1>1, JobsType DEF T, P, Job, Key, Keys
<1>4. /\ PendingKeys = {Key(jobs[n]) : n \in Unfinished}
      /\ PendingKeys' = {Key(jobs[n]) : n \in Unfinished'}
  <2>1. PendingKeys = {Key(jobs[n]) : n \in Unfinished}
    BY <1>2, PendingOfJobs
  <2>2. PendingKeys' = {Key(jobs[n]) : n \in Unfinished'}
    BY <1>1, <1>2 DEF PendingKeys, Unfinished, Key
  <2> QED
    BY <2>1, <2>2
<1>5. j \in Unfinished
  BY <1>1 DEF Unfinished
<1>6. ~Leaves(w) => Unfinished' = Unfinished
  BY <1>1 DEF Unfinished
<1>7. Unfinished' \subseteq Unfinished /\ Unfinished \ {j} \subseteq Unfinished'
  <2>1. 0 \notin DOMAIN jobs
    BY JobsType
  <2> QED
    BY <1>1, <2>1 DEF Unfinished
<1> HIDE DEF j
<1>8. ~Leaves(w) => PendingKeys' = PendingKeys
  BY <1>4, <1>6
<1>9. PendingKeys' \subseteq PendingKeys /\ PendingKeys \ {k} \subseteq PendingKeys'
  BY <1>4, <1>7 DEF j
<1>10. k \in PendingKeys
  BY <1>4, <1>5 DEF j
<1>11. PendingKeys' = PendingKeys \/ (Leaves(w) /\ PendingKeys' = PendingKeys \ {k})
  <2>1. CASE Leaves(w)
    <3>1. PendingKeys' = PendingKeys \/ PendingKeys' = PendingKeys \ {k}
      BY <1>9
    <3> QED
      BY <2>1, <3>1
  <2>2. CASE ~Leaves(w)
    BY <1>8, <2>2
  <2> QED
    BY <2>1, <2>2
<1> QED
  BY <1>1, <1>2, <1>3, <1>10, <1>11

\* Its step gives a verdict that the report prints to that key, or none.
LEMMA WorkGives ==
  ASSUME TypeOK, NEW w \in Workers, WorkStep(w), NEW k \in Keys, k = <<T(w), P(w)>>
  PROVE  /\ \A i \in Keys \ {k} : Given(i)' = Given(i)
         /\ \/ Given(k)' = Given(k)
            \/ \E b \in Printed : Given(k)' = Given(k) \cup {b}
<1>1. ~On(w, "idle") /\ \A i \in Keys : i = <<i[1], i[2]>> /\ i[1] \in Targets
  BY DEF Keys, WorkStep
<1>2. /\ Printed \subseteq Buckets
      /\ \A i, c : c \in Given(i) <=> c \in Printed /\ Seen(i[1], i[2], c)
      /\ \A i, c : c \in Given(i)' <=> c \in Printed /\ Seen(i[1], i[2], c)'
  BY PrintedAreBuckets DEF Given, VerdictsOf, Seen
<1>3. CASE \A t \in Targets, c \in Buckets :
             target_results'[t].ports[c] = target_results[t].ports[c]
  <2>1. \A i \in Keys, c \in Printed : Seen(i[1], i[2], c)' <=> Seen(i[1], i[2], c)
    BY <1>1, <1>2, <1>3 DEF Seen, Recorded
  <2>2. ASSUME NEW i \in Keys PROVE Given(i)' = Given(i)
    <3>1. \A c : c \in Given(i)' <=> c \in Given(i)
      BY <1>2, <2>1
    <3> QED
      BY <3>1
  <2> QED
    BY <2>2
<1>4. CASE \E b \in Printed : \E S : Lists(w, {b}, S)
  <2>1. PICK b \in Printed : \E S : Lists(w, {b}, S)
    BY <1>4
  <2>2. PICK S : Lists(w, {b}, S)
    BY <2>1
  <2>3. ASSUME NEW i \in Keys, NEW c \in Printed
        PROVE  c \in Given(i)' <=> c \in Given(i) \/ (i = k /\ c = b)
    <3>1. PICK t \in Targets : t = i[1]
      BY <1>1
    <3>2. Recorded(target_results'[t], c) =
            Recorded(target_results[t], c) \cup (IF t = T(w) /\ c \in {b} THEN {P(w)} ELSE {})
      BY <1>1, <1>2, <2>2, ListsRecorded
    <3>3. i = k <=> i[1] = T(w) /\ i[2] = P(w)
      BY <1>1
    <3> QED
      BY <1>2, <3>1, <3>2, <3>3 DEF Seen
  <2>4. ASSUME NEW i \in Keys \ {k} PROVE Given(i)' = Given(i)
    BY <1>2, <2>3
  <2>5. Given(k)' = Given(k) \cup {b}
    BY <1>2, <2>3
  <2> QED
    BY <2>4, <2>5
<1> QED
  BY <1>3, <1>4, WorkPorts

LEMMA InitLedger == Init => ledger!Init
<1> SUFFICES ASSUME Init PROVE ledger!Init
  OBVIOUS
<1>1. scan \in Scans /\ phase = "test"
      /\ target_results = [t \in Targets |-> initialize_target_results]
  BY DEF Init
<1>2. PendingKeys \subseteq Keys
  BY <1>1, AskedAreKeys, PendingOfJobs
<1>3. ASSUME NEW k \in Keys PROVE Given(k) = {}
  BY <1>1, NothingGiven
<1> QED
  BY <1>1, <1>2, <1>3 DEF ledger!Init, Keys, Given

\* A step that changes none of what the ledger sees.
LEMMA LedgerStutters ==
  ASSUME UNCHANGED <<PendingKeys, LedgerPhase>>, \A k \in Keys : Given(k)' = Given(k)
  PROVE  UNCHANGED ledger!vars
  BY DEF ledger!vars, Keys, Given, LedgerPhase

LEMMA WorkLedger ==
  ASSUME TypeOK, Stage, Settled, NEW w \in Workers, WorkStep(w)
  PROVE  [ledger!Next]_(ledger!vars)
<1>1. PICK k, j : k = Key(jobs[worker[w].job]) /\ j = worker[w].job
  OBVIOUS
<1>2. /\ k \in PendingKeys /\ k \in Keys /\ k = <<T(w), P(w)>>
      /\ PendingKeys' = PendingKeys \/ (Leaves(w) /\ PendingKeys' = PendingKeys \ {k})
      /\ phase = "scan" /\ phase' = "scan"
  BY <1>1, PendingWork
<1>3. /\ \A i \in Keys \ {k} : Given(i)' = Given(i)
      /\ \/ Given(k)' = Given(k)
         \/ \E b \in Printed : Given(k)' = Given(k) \cup {b}
  BY <1>2, WorkGives
<1>4. LedgerPhase = "open" /\ LedgerPhase' = "open"
  BY <1>2 DEF LedgerPhase
<1>5. CASE \E b \in Printed : Given(k)' = Given(k) \cup {b}
  <2>1. ledger!Give(k)
    BY <1>2, <1>3, <1>4, <1>5 DEF ledger!Give, Keys, Given, LedgerPhase
  <2> QED
    BY <1>2, <2>1 DEF ledger!Next, Keys
<1>6. CASE Given(k)' = Given(k) /\ PendingKeys' = PendingKeys
  BY <1>3, <1>4, <1>6, LedgerStutters
<1>7. CASE Given(k)' = Given(k) /\ Leaves(w) /\ PendingKeys' = PendingKeys \ {k}
  <2>1. Given(k) # {}
    <3>1. \E b \in Printed : In(j, b)'
      BY <1>1, <1>7, WorkSettles
    <3>2. jobs' = jobs /\ jobs[j].target = k[1] /\ jobs[j].port = k[2]
      BY <1>1 DEF WorkStep, progress, Key
    <3>3. (\E b \in Printed : In(j, b)') => Given(k)' # {}
      BY <3>2, PrintedAreBuckets DEF In, Seen, Given, VerdictsOf
    <3> QED
      BY <1>7, <3>1, <3>3
  <2>2. \A i \in Keys : Given(i)' = Given(i)
    BY <1>3, <1>7
  <2>3. ledger!Close(k)
    BY <1>2, <1>4, <1>7, <2>1, <2>2 DEF ledger!Close, ledger!Kept, Keys, Given, LedgerPhase
  <2> QED
    BY <1>2, <2>3 DEF ledger!Next, Keys
<1> QED
  BY <1>2, <1>3, <1>5, <1>6, <1>7

LEMMA NextLedger ==
  TypeOK /\ Stage /\ Lengths /\ Settled /\ Tested /\ NoTwice(scan.zombie_ips) /\ [Next]_vars
    => [ledger!Next]_(ledger!vars)
<1> SUFFICES ASSUME TypeOK, Stage, Lengths, Settled, Tested, NoTwice(scan.zombie_ips),
                    [Next]_vars
             PROVE  [ledger!Next]_(ledger!vars)
  OBVIOUS
<1>1. Asked' = Asked
  BY ScanStays DEF Asked
<1>2. (UNCHANGED target_results) => \A k \in Keys : Given(k)' = Given(k)
  BY DEF Given, VerdictsOf
<1>3. CASE UNCHANGED vars \/ FinishReport \/ Zombie
  <2>1. /\ UNCHANGED <<target_results, taken, worker, jobs, good_zombies>>
        /\ phase' = phase \/ (phase = "report" /\ phase' = "done")
    BY <1>3 DEF vars, progress, FinishReport, Zombie, ZombieResets, ZombieChatters
  <2>2. PendingKeys' = PendingKeys
    BY <1>1, <2>1 DEF PendingKeys
  <2>3. LedgerPhase' = LedgerPhase
    BY <2>1 DEF LedgerPhase
  <2> QED
    BY <1>2, <2>1, <2>2, <2>3, LedgerStutters
<1>4. CASE TestZombie
  <2>1. phase = "test" /\ phase' = "test" /\ UNCHANGED target_results
    BY <1>4 DEF TestZombie
  <2>2. PendingKeys' = PendingKeys /\ LedgerPhase' = LedgerPhase
    BY <1>1, <2>1 DEF PendingKeys, LedgerPhase
  <2> QED
    BY <1>2, <2>1, <2>2, LedgerStutters
\* The scan ends before it began.
<1>5. CASE TestRaises \/ (StartScan /\ good_zombies = <<>>)
  <2>1. /\ phase = "test" /\ UNCHANGED <<target_results, good_zombies>>
        /\ phase' = "cut_short" \/ (phase' = "report" /\ good_zombies = <<>>)
    BY <1>5 DEF TestRaises, StartScan
  <2>2. PendingKeys' = PendingKeys
    BY <1>1, <2>1 DEF PendingKeys
  <2>3. LedgerPhase = "open" /\ LedgerPhase' = "withdrawn"
    BY <2>1 DEF LedgerPhase
  <2>4. \A k \in Keys : Given(k) = {}
    BY <2>1, NothingGiven DEF Stage
  <2>5. ledger!Withdraw
    BY <1>2, <2>1, <2>2, <2>3, <2>4 DEF ledger!Withdraw, ledger!Kept, Keys, Given, LedgerPhase
  <2> QED
    BY <2>5 DEF ledger!Next
\* Every port that was asked for is asked of a zombie.
<1>6. CASE StartScan /\ good_zombies # <<>>
  <2>1. /\ phase = "test" /\ phase' = "scan" /\ jobs' = Submitted(good_zombies)
        /\ UNCHANGED <<target_results, good_zombies, taken, worker>>
        /\ taken = 0
    BY <1>6 DEF StartScan, Stage
  <2>2. PendingKeys = Asked
    BY <2>1, PendingOfJobs
  <2>3. PendingKeys' = Asked
    <3>1. {Key(j) : j \in ToSet(jobs')} = Asked
      BY <1>6, <2>1, EveryKeyCalled
    <3>2. jobs' \in Seq(Calls)
      BY NextType DEF TypeOK
    <3>3. \A n \in DOMAIN jobs' : n > 0
      BY <3>2
    <3>4. PendingKeys' = {Key(jobs'[n]) : n \in DOMAIN jobs'}
      BY <1>6, <2>1, <3>3 DEF PendingKeys, Key
    <3> QED
      BY <3>1, <3>4 DEF ToSet
  <2>4. LedgerPhase' = LedgerPhase
    BY <2>1 DEF LedgerPhase
  <2> QED
    BY <1>2, <2>1, <2>2, <2>3, <2>4, LedgerStutters
<1>7. CASE FinishScan
  <2>1. /\ UNCHANGED <<target_results, taken, worker, jobs, good_zombies>>
        /\ phase = "scan" /\ phase' = "report" /\ taken = Len(jobs) /\ good_zombies # <<>>
        /\ \A w \in Workers : worker[w].job = 0
    BY <1>7 DEF FinishScan, TypeOK, Stage
  <2>2. PendingKeys = {}
    <3>1. DOMAIN jobs = 1..Len(jobs) /\ Len(jobs) \in Nat
      BY JobsType
    <3> DEFINE l == Len(jobs)
    <3>2. \A m \in DOMAIN jobs : ~(m > taken) /\ m # 0
      BY <2>1, <3>1
    <3>3. Unfinished = {}
      BY <2>1, <3>2 DEF Unfinished
    <3> QED
      BY <2>1, <3>3, PendingOfJobs
  <2>3. PendingKeys' = PendingKeys
    BY <2>1 DEF PendingKeys
  <2>4. LedgerPhase = "open" /\ LedgerPhase' = "published"
    BY <2>1 DEF LedgerPhase
  <2>5. ledger!Publish
    BY <1>2, <2>1, <2>2, <2>3, <2>4 DEF ledger!Publish, ledger!Kept, Keys, Given, LedgerPhase
  <2> QED
    BY <2>5 DEF ledger!Next
<1>8. CASE ReportTarget
  <2>1. UNCHANGED <<taken, worker, phase, jobs, good_zombies>>
    BY <1>8 DEF ReportTarget
  <2>2. \A k \in Keys : Given(k)' = Given(k)
    BY <1>8, ReportKeeps DEF Given, VerdictsOf, Keys
  <2>3. PendingKeys' = PendingKeys /\ LedgerPhase' = LedgerPhase
    BY <1>1, <2>1 DEF PendingKeys, LedgerPhase
  <2> QED
    BY <2>2, <2>3, LedgerStutters
<1>9. ASSUME NEW w \in Workers, Take(w)
      PROVE  [ledger!Next]_(ledger!vars)
  <2>1. /\ worker'[w].job = taken + 1 /\ worker[w].job = 0 /\ taken' = taken + 1
        /\ taken \in Nat
        /\ \A v \in Workers \ {w} : worker'[v] = worker[v]
        /\ UNCHANGED <<target_results, phase, jobs, good_zombies>>
    BY <1>9, TakeType
  <2>2. ASSUME NEW m \in DOMAIN jobs
        PROVE  (m > taken \/ \E v \in Workers : worker[v].job = m) <=>
               (m > taken + 1 \/ \E v \in Workers : worker'[v].job = m)
    <3>1. m \in 1..Len(jobs) /\ Len(jobs) \in Nat
      BY JobsType
    <3>2. m \in Nat \ {0}
      BY <3>1
    <3>3. m > taken <=> m > taken + 1 \/ m = taken + 1
      BY <2>1, <3>2
    <3> QED
      BY <2>1, <3>2, <3>3
  <2>3. PendingKeys' = PendingKeys
    BY <1>1, <2>1, <2>2 DEF PendingKeys
  <2>4. LedgerPhase' = LedgerPhase
    BY <2>1 DEF LedgerPhase
  <2> QED
    BY <1>2, <2>1, <2>3, <2>4, LedgerStutters
<1>10. ASSUME NEW w \in Workers, Step(w), ~Take(w)
       PROVE  [ledger!Next]_(ledger!vars)
  BY <1>10, WorkStepEffect, WorkLedger
<1> QED
  BY <1>3, <1>4, <1>5, <1>6, <1>7, <1>8, <1>9, <1>10 DEF Next, Main, Terminated

\* Every step of a scan that names no zombie twice is one the ledger allows: when a zombie
\* answered, the split over the zombies leaves no port out, however many zombies and ports
\* there are; no call returns without a verdict the report prints, whatever raised; and the
\* clean-up of the report changes none.  A zombie named twice keeps one of its two slices,
\* and the ports of the other are scanned by nobody.  A scan is fixed when it starts.
THEOREM LedgerKeptHolds == Spec /\ NoTwice(scan.zombie_ips) => LedgerKept
<1> DEFINE Inv == /\ TypeOK /\ Stage /\ Lengths /\ Settled /\ Tested
                  /\ NoTwice(scan.zombie_ips)
<1>1. Init /\ NoTwice(scan.zombie_ips) => Inv /\ ledger!Init
  BY InitType, InitStage, InitLengths, InitSettled, InitTested, InitLedger
<1>2. Inv /\ [Next]_vars => Inv'
  BY NextType, NextStage, NextLengths, NextSettled, NextTested, ScanStays DEF NoTwice
<1>3. Inv /\ [Next]_vars => [ledger!Next]_(ledger!vars)
  BY NextLedger
<1> QED
  BY <1>1, <1>2, <1>3, PTL DEF Spec, LedgerKept, ledger!Spec

-----------------------------------------------------------------------------
(* One thread, and zombies that send nothing of their own *)

LEMMA Remainders ==
  ASSUME NEW n \in Nat, n > 0
  PROVE  /\ \A x \in 0 .. n - 1 : x % n = x
         /\ n % n = 0
         /\ \A x \in -n .. -1 : x % n = x + n
<1>1. ASSUME NEW x \in 0 .. n - 1 PROVE x % n = x
  BY SMTT(30)
<1>2. n % n = 0
  BY SMTT(30)
<1>3. ASSUME NEW x \in -n .. -1 PROVE x % n = x + n
  BY SMTT(30)
<1> QED
  BY <1>1, <1>2, <1>3

\* The identifier one packet later, and two packets later, also across the wrap.
LEMMA Differences ==
  ASSUME NEW a \in Ids, NEW b, NEW c, b = (a + 1) % IdSpace, c = (b + 1) % IdSpace
  PROVE  Diff(b, a) = 1 /\ Diff(c, a) = 2
<1>1. IdSpace \in Nat /\ IdSpace > 2 /\ a \in 0 .. IdSpace - 1
  BY ScanAssumption DEF Ids
<1>2. /\ \A x \in 0 .. IdSpace - 1 : x % IdSpace = x
      /\ IdSpace % IdSpace = 0
      /\ \A x \in -IdSpace .. -1 : x % IdSpace = x + IdSpace
  BY <1>1, Remainders
<1>3. CASE a + 2 < IdSpace
  <2>1. b = a + 1
    BY <1>1, <1>2, <1>3
  <2>2. c = a + 2
    BY <1>1, <1>2, <1>3, <2>1
  <2>3. b - a = 1 /\ c - a = 2 /\ 1 \in 0 .. IdSpace - 1 /\ 2 \in 0 .. IdSpace - 1
    BY <1>1, <2>1, <2>2
  <2> QED
    BY <1>2, <2>3 DEF Diff
<1>4. CASE a + 2 = IdSpace
  <2>1. b = a + 1
    BY <1>1, <1>2, <1>4
  <2>2. c = 0
    BY <1>1, <1>2, <1>4, <2>1
  <2>3. b - a = 1 /\ c - a = 2 - IdSpace
        /\ 1 \in 0 .. IdSpace - 1 /\ 2 - IdSpace \in -IdSpace .. -1
        /\ 2 - IdSpace + IdSpace = 2
    BY <1>1, <1>4, <2>1, <2>2
  <2> QED
    BY <1>2, <2>3 DEF Diff
<1>5. CASE a + 1 = IdSpace
  <2>1. b = 0
    BY <1>1, <1>2, <1>5
  <2>2. c = 1
    BY <1>1, <1>2, <2>1
  <2>3. b - a = 1 - IdSpace /\ c - a = 2 - IdSpace
        /\ 1 - IdSpace \in -IdSpace .. -1 /\ 2 - IdSpace \in -IdSpace .. -1
        /\ 1 - IdSpace + IdSpace = 1 /\ 2 - IdSpace + IdSpace = 2
    BY <1>1, <1>5, <2>1, <2>2
  <2> QED
    BY <1>2, <2>3 DEF Diff
<1> QED
  BY <1>1, <1>3, <1>4, <1>5

Solo == scan.max_threads = 1 /\ scan.chatter = 0 /\ scan.faults = {} /\ scan.version = 4
Truth(t, p) == IF <<t, p>> \in scan.open THEN "open_ports" ELSE "closed_filtered_ports"

\* Where the zombie's counter stands while the thread scans a port: at id1 until the zombie
\* has answered the SYN-ACK of an open port.
Exact(w) ==
  /\ ~On(w, "give_up")
  /\ On(w, "spoof") => ip_id[Z(w)] = worker[w].id1
  /\ On(w, "second probe") =>
       /\ Own(w) \in due => <<T(w), P(w)>> \in scan.open
       /\ ip_id[Z(w)] = IF <<T(w), P(w)>> \in scan.open /\ Own(w) \notin due
                        THEN (worker[w].id1 + 1) % IdSpace ELSE worker[w].id1
  /\ worker[w].pc \in {"record", "name"} => worker[w].bucket = Truth(T(w), P(w))

SoloInv ==
  /\ \A z \in Zombies : chatter[z] = 0
  /\ \A d \in due : \E w \in Workers : On(w, "second probe") /\ d = Own(w)
  /\ \A w \in Workers : Exact(w)
  /\ \A t \in Targets, p \in Ports, b \in Buckets : Seen(t, p, b) => b = Truth(t, p)

LEMMA InitSolo == Init /\ Solo => SoloInv
<1> SUFFICES ASSUME Init, Solo PROVE SoloInv
  OBVIOUS
<1>1. \A w \in Workers : worker[w].pc = "idle"
  BY DEF Init, Idle
<1>2. \A w \in Workers : Exact(w)
  BY <1>1 DEF Exact, On
<1>3. target_results = [t \in Targets |-> initialize_target_results]
  BY DEF Init
<1>4. \A t \in Targets, p \in Ports, b \in Buckets : ~Seen(t, p, b)
  BY <1>3, NothingSeen DEF Seen
<1>5. due = {} /\ \A z \in Zombies : chatter[z] = 0
  BY DEF Init, Solo
<1> QED
  BY <1>2, <1>4, <1>5 DEF SoloInv

\* No second thread works.
LEMMA Alone ==
  ASSUME Stage, Solo, NEW w \in Workers, NEW v \in Workers, ~On(w, "idle"), ~On(v, "idle")
  PROVE  v = w
<1>1. w <= 1 /\ v <= 1
  BY DEF Stage, Solo
<1>2. w \in 1..MaxThreads /\ v \in 1..MaxThreads /\ MaxThreads \in Nat
  BY ScanAssumption DEF Workers
<1> QED
  BY <1>1, <1>2

\* What is due before and after a step of the thread w is due to w.
LEMMA DueIsOwn ==
  ASSUME Stage, Solo, SoloInv, NEW w \in Workers, ~On(w, "idle")
  PROVE  /\ due \subseteq {Own(w)}
         /\ ~On(w, "second probe") => due = {}
<1>1. ASSUME NEW d \in due PROVE On(w, "second probe") /\ d = Own(w)
  <2>1. PICK v \in Workers : On(v, "second probe") /\ d = Own(v)
    BY <1>1 DEF SoloInv
  <2>2. v = w
    BY <2>1, Alone DEF On
  <2> QED
    BY <2>1, <2>2
<1> QED
  BY <1>1

LEMMA WorkSolo ==
  ASSUME TypeOK, Stage, Solo, SoloInv, NEW w \in Workers, Step(w), ~Take(w)
  PROVE  SoloInv'
<1>1. WorkStep(w)
  BY WorkStepEffect
<1>2. /\ ~On(w, "idle") /\ UNCHANGED <<scan, chatter, jobs>>
      /\ worker' = [worker EXCEPT ![w] = worker'[w]]
      /\ \A v \in Workers \ {w} : worker'[v] = worker[v]
      /\ DOMAIN worker = Workers
      /\ T(w) \in Targets /\ P(w) \in Ports /\ Z(w) \in Zombies
      /\ worker[w].id1 \in Ids /\ ip_id \in [Zombies -> Ids]
      /\ worker[w] \in Threads(taken)
  BY <1>1, BusyWorker DEF WorkStep, progress, TypeOK, Threads
<1>3. \A v \in Workers \ {w} : worker[v].pc = "idle"
  BY <1>2, Alone DEF On
<1>4. \A v \in Workers \ {w} : Exact(v)'
  BY <1>2, <1>3 DEF Exact, On
<1>5. due \subseteq {Own(w)} /\ (~On(w, "second probe") => due = {}) /\ Exact(w)
  BY <1>2, DueIsOwn DEF SoloInv
<1>6. ~May("lost") /\ ~May("raise") /\ ~May("late")
  BY DEF May, Solo
<1>7. /\ \A s : worker' = [worker EXCEPT ![w] = s] => worker'[w] = s
      /\ worker'[w].job = worker[w].job =>
           T(w)' = T(w) /\ P(w)' = P(w) /\ Z(w)' = Z(w)
  BY <1>2 DEF T, P, Z, Job
\* The lists of ports.
<1>8. \A t \in Targets, p \in Ports, b \in Buckets : Seen(t, p, b)' => b = Truth(t, p)
  <2>1. CASE \A t \in Targets, c \in Buckets :
               target_results'[t].ports[c] = target_results[t].ports[c]
    <3>1. ASSUME NEW t \in Targets, NEW p \in Ports, NEW c \in Buckets
          PROVE  Seen(t, p, c)' <=> Seen(t, p, c)
      BY <2>1 DEF Seen, Recorded
    <3> QED
      BY <3>1 DEF SoloInv
  <2>2. CASE /\ worker[w].pc \in {"record", "give_up"}
             /\ \E b \in Printed :
                  /\ worker[w].pc = "record" => b = worker[w].bucket
                  /\ \E S : Lists(w, {b}, S)
    <3>1. worker[w].pc = "record" /\ worker[w].bucket = Truth(T(w), P(w))
      BY <1>5, <2>2 DEF Exact, On
    <3>2. PICK b \in Printed : b = worker[w].bucket /\ \E S : Lists(w, {b}, S)
      BY <2>2, <3>1
    <3>3. PICK S : Lists(w, {b}, S)
      BY <3>2
    <3>4. ASSUME NEW t \in Targets, NEW p \in Ports, NEW c \in Buckets, Seen(t, p, c)'
          PROVE  c = Truth(t, p)
      <4>1. Recorded(target_results'[t], c) =
              Recorded(target_results[t], c) \cup (IF t = T(w) /\ c \in {b} THEN {P(w)} ELSE {})
        BY <1>2, <3>3, ListsRecorded
      <4>2. Seen(t, p, c) \/ (t = T(w) /\ c = b /\ p = P(w))
        BY <3>4, <4>1 DEF Seen
      <4> QED
        BY <3>1, <3>2, <4>2 DEF SoloInv
    <3> QED
      BY <3>4
  <2> QED
    BY <1>1, <2>1, <2>2, WorkPorts
<1>9. /\ \A z \in Zombies : chatter'[z] = 0
      /\ \A t, p : Truth(t, p)' = Truth(t, p)
  BY <1>2 DEF SoloInv, Truth
<1> SUFFICES /\ due' = {} \/ (On(w, "second probe")' /\ due' \subseteq {Own(w)'})
             /\ Exact(w)'
  BY <1>4, <1>8, <1>9 DEF SoloInv
<1>10. CASE FirstProbe(w)
  <2>1. /\ Sends(Z(w)) /\ due' = due /\ worker[w].pc = "first probe"
        /\ worker' = [worker EXCEPT ![w].pc = "spoof", ![w].id1 = ip_id'[Z(w)]]
    <3>1. scan.version # 6
      BY DEF Solo
    <3>2. On(w, "first probe") /\ UNCHANGED due
      BY <1>10 DEF FirstProbe
    <3>3. /\ Sends(Z(w))
          /\ worker' = [worker EXCEPT ![w].pc = "spoof", ![w].id1 = ip_id'[Z(w)]]
      BY <1>6, <1>10, <3>1 DEF FirstProbe
    <3> QED
      BY <3>2, <3>3 DEF On
  <2>2. due' = {}
    BY <1>5, <2>1 DEF On
  <2>3. worker'[w].pc = "spoof" /\ worker'[w].id1 = ip_id'[Z(w)] /\ worker'[w].job = worker[w].job
    BY <1>2, <2>1 DEF Threads
  <2> QED
    BY <1>7, <2>2, <2>3 DEF Exact, On
<1>11. CASE SpoofedSyn(w)
  <2>1. /\ due' = (IF <<T(w), P(w)>> \in scan.open THEN due \cup {Own(w)} ELSE due)
        /\ worker[w].pc = "spoof" /\ ip_id' = ip_id
        /\ worker' = [worker EXCEPT ![w].pc = "second probe"]
    BY <1>6, <1>11 DEF SpoofedSyn, On
  <2>2. due = {} /\ ip_id[Z(w)] = worker[w].id1
    BY <1>5, <2>1 DEF On, Exact
  <2>3. /\ worker'[w].pc = "second probe" /\ worker'[w].id1 = worker[w].id1
        /\ worker'[w].job = worker[w].job /\ worker'[w].attempt = worker[w].attempt
    BY <1>2, <2>1 DEF Threads
  <2>4. Own(w)' = Own(w)
    BY <1>7, <2>3 DEF Own
  <2> QED
    BY <1>2, <1>7, <2>1, <2>2, <2>3, <2>4 DEF Exact, On
<1>12. CASE SecondProbe(w)
  <2>1. /\ Own(w) \notin due /\ due' = due /\ Sends(Z(w)) /\ worker[w].pc = "second probe"
        /\ Settle(w, Judged(Diff(ip_id'[Z(w)], worker[w].id1)))
    BY <1>6, <1>12 DEF SecondProbe, On
  <2>2. due' = {}
    BY <1>5, <2>1
  <2> DEFINE a == worker[w].id1
             b == (a + 1) % IdSpace
             c == (b + 1) % IdSpace
             d == Diff(ip_id'[Z(w)], a)
  <2>3. ip_id'[Z(w)] = (ip_id[Z(w)] + 1) % IdSpace
    BY <1>2, <2>1, NextId
  <2>4. ip_id[Z(w)] = IF <<T(w), P(w)>> \in scan.open THEN b ELSE a
    BY <1>5, <2>1 DEF Exact, On
  <2>5. a \in Ids /\ Diff(b, a) = 1 /\ Diff(c, a) = 2
    BY <1>2, Differences
  <2>6. d = IF <<T(w), P(w)>> \in scan.open THEN 2 ELSE 1
    BY <2>3, <2>4, <2>5
  <2>7. Judged(d) = Truth(T(w), P(w))
    BY <2>6 DEF Judged, Truth
  <2> HIDE DEF a, b, c, d
  <2>8. worker' = [worker EXCEPT ![w].pc = "record", ![w].bucket = Truth(T(w), P(w))]
    BY <2>1, <2>7 DEF Settle, d, a
  <2> DEFINE x == Truth(T(w), P(w))
  <2>9. worker' = [worker EXCEPT ![w].pc = "record", ![w].bucket = x]
    BY <2>8
  <2> HIDE DEF x
  <2>10. worker'[w].pc = "record" /\ worker'[w].bucket = x /\ worker'[w].job = worker[w].job
    BY <1>2, <2>9 DEF Threads
  <2> QED
    BY <1>7, <1>9, <2>2, <2>10 DEF Exact, On, x
<1>13. CASE RecordPort(w)
  <2>1. /\ worker[w].pc = "record" /\ due' = due
        /\ worker' = [worker EXCEPT ![w].pc = "name"]
    BY <1>13 DEF RecordPort, environment, On
  <2>2. due' = {} /\ worker[w].bucket = Truth(T(w), P(w))
    BY <1>5, <2>1 DEF On, Exact
  <2>3. /\ worker'[w].pc = "name" /\ worker'[w].bucket = worker[w].bucket
        /\ worker'[w].job = worker[w].job
    BY <1>2, <2>1 DEF Threads
  <2> QED
    BY <1>7, <1>9, <2>2, <2>3 DEF Exact, On
<1>14. CASE RecordService(w) \/ GiveUp(w)
  <2>1. worker[w].pc \in {"name", "give_up"} /\ due' = due /\ Return(w)
    BY <1>14 DEF RecordService, GiveUp, environment, On
  <2>2. due' = {}
    BY <1>5, <2>1 DEF On
  <2>3. worker'[w].pc = "idle"
    BY <1>2, <2>1 DEF Return, Idle
  <2> QED
    BY <2>2, <2>3 DEF Exact, On
<1>15. CASE CallRaises(w)
  BY <1>6, <1>15 DEF CallRaises
<1> QED
  BY <1>10, <1>11, <1>12, <1>13, <1>14, <1>15 DEF Step

LEMMA NextSolo == TypeOK /\ Stage /\ Solo /\ SoloInv /\ [Next]_vars => SoloInv'
<1> SUFFICES ASSUME TypeOK, Stage, Solo, SoloInv, [Next]_vars PROVE SoloInv'
  OBVIOUS
<1>1. scan' = scan /\ \A t, p : Truth(t, p)' = Truth(t, p)
  BY ScanStays DEF Truth
\* Steps while no thread works.
<1>2. ASSUME Quiet, UNCHANGED <<worker, due, chatter>>,
             \A t \in Targets, p \in Ports, b \in Buckets : Seen(t, p, b)' => Seen(t, p, b)
      PROVE  SoloInv'
  <2>1. \A w \in Workers : worker[w].pc = "idle" /\ worker'[w].pc = "idle"
    BY <1>2 DEF Quiet, On
  <2>2. due' = {}
    BY <1>2, <2>1 DEF SoloInv, On
  <2>3. \A w \in Workers : Exact(w)'
    BY <2>1 DEF Exact, On
  <2> QED
    BY <1>1, <1>2, <2>2, <2>3 DEF SoloInv
<1>3. CASE UNCHANGED vars
  <2>1. UNCHANGED <<scan, target_results, worker, due, chatter, ip_id, jobs>>
    BY <1>3 DEF vars, environment, progress
  <2> QED
    BY <1>1, <2>1 DEF SoloInv, Exact, Seen, On, Own, Z, T, P, Job
<1>4. CASE Main
  <2>1. Quiet /\ UNCHANGED <<worker, due, chatter>>
    BY <1>4 DEF Main, TestZombie, TestRaises, StartScan, FinishScan, ReportTarget, FinishReport,
       environment, Stage, Quiet
  <2>2. \A t \in Targets, p \in Ports, b \in Buckets : Seen(t, p, b)' => Seen(t, p, b)
    <3>1. CASE target_results' = target_results
      BY <3>1 DEF Seen
    <3>2. CASE ReportTarget
      <4>1. \A t \in Targets : \/ target_results'[t] = target_results[t]
                               \/ target_results'[t] = SyncAndDeduplicate(target_results[t])
        BY <3>2 DEF ReportTarget, Write, TypeOK
      <4> QED
        BY <4>1, SyncAndDeduplicateType DEF Seen, TypeOK
    <3> QED
      BY <1>4, <3>1, <3>2 DEF Main, TestZombie, TestRaises, StartScan, FinishScan, FinishReport
  <2> QED
    BY <1>2, <2>1, <2>2
<1>5. ASSUME NEW w \in Workers, Take(w)
      PROVE  SoloInv'
  <2>1. /\ On(w, "idle") /\ worker'[w].pc = "first probe"
        /\ \A v \in Workers \ {w} : worker'[v] = worker[v]
        /\ UNCHANGED <<target_results, due, chatter, ip_id, jobs>>
        /\ w <= scan.max_threads
    BY <1>5, TakeType DEF environment
  <2>2. ASSUME NEW v \in Workers PROVE worker[v].pc = "idle"
    <3>1. CASE v = w
      BY <2>1, <3>1 DEF On
    <3>2. CASE v # w /\ ~On(v, "idle")
      <4>1. v <= 1 /\ w <= 1
        BY <2>1, <3>2 DEF Stage, Solo
      <4>2. v \in 1..MaxThreads /\ w \in 1..MaxThreads /\ MaxThreads \in Nat
        BY ScanAssumption DEF Workers
      <4> QED
        BY <3>2, <4>1, <4>2
    <3> QED
      BY <3>1, <3>2 DEF On
  <2>3. due' = {}
    BY <2>1, <2>2 DEF SoloInv, On
  <2>4. ASSUME NEW v \in Workers PROVE Exact(v)'
    <3>1. worker'[v].pc \in {"idle", "first probe"}
      BY <2>1, <2>2
    <3> QED
      BY <3>1 DEF Exact, On
  <2> QED
    BY <1>1, <2>1, <2>3, <2>4 DEF SoloInv, Seen
<1>6. ASSUME NEW w \in Workers, Step(w), ~Take(w)
      PROVE  SoloInv'
  BY <1>6, WorkSolo
<1>7. ASSUME NEW d \in due, ZombieResets(d)
      PROVE  SoloInv'
  <2>1. PICK w \in Workers : On(w, "second probe") /\ d = Own(w)
    BY <1>7 DEF SoloInv
  <2>2. ~On(w, "idle") /\ Z(w) \in Zombies
    BY <2>1, BusyWorker DEF On
  <2>3. /\ due \subseteq {d} /\ due' = due \ {d} /\ Sends(Z(w))
        /\ UNCHANGED <<target_results, worker, chatter, jobs>>
    BY <1>7, <2>1, <2>2, DueIsOwn DEF ZombieResets, Own, progress
  <2>4. due' = {}
    BY <2>3
  <2>5. /\ <<T(w), P(w)>> \in scan.open /\ ip_id[Z(w)] = worker[w].id1
    BY <2>1 DEF SoloInv, Exact
  <2>6. ip_id'[Z(w)] = (worker[w].id1 + 1) % IdSpace
    BY <2>2, <2>3, <2>5, NextId
  <2>7. Exact(w)'
    <3>1. worker'[w].pc = "second probe"
      BY <2>1, <2>3 DEF On
    <3>2. Own(w)' \notin due'
      BY <2>4
    <3>3. /\ T(w)' = T(w) /\ P(w)' = P(w) /\ Z(w)' = Z(w)
      BY <2>3 DEF T, P, Z, Job
    <3>4. ip_id'[Z(w)'] = (worker'[w].id1 + 1) % IdSpace /\ <<T(w)', P(w)'>> \in scan'.open
      BY <1>1, <2>3, <2>5, <2>6, <3>3
    <3> QED
      BY <3>1, <3>2, <3>4 DEF Exact, On
  <2>8. ASSUME NEW v \in Workers, v # w PROVE Exact(v)'
    <3>1. worker'[v].pc = "idle"
      BY <2>2, <2>3, <2>8, Alone DEF On
    <3> QED
      BY <3>1 DEF Exact, On
  <2> QED
    BY <1>1, <2>3, <2>4, <2>7, <2>8 DEF SoloInv, Seen
<1>8. ASSUME NEW z \in Zombies, ZombieChatters(z)
      PROVE  SoloInv'
  <2>1. chatter[z] = 0
    BY DEF SoloInv
  <2>2. chatter[z] > 0
    BY <1>8 DEF ZombieChatters
  <2> QED
    BY <2>1, <2>2
<1> QED
  BY <1>3, <1>4, <1>5, <1>6, <1>7, <1>8 DEF Next, Zombie, Terminated

\* With one thread, silent zombies and nothing lost, the verdicts are the truth, for every
\* space of identifiers and every choice of open ports: of the two packets the zombie sends
\* for an open port none is missed, the wrap of the identifier included, and none is left
\* over for the next port.
THEOREM SoleWorkerExactHolds == Spec => []SoleWorkerExact
<1> DEFINE Inv == TypeOK /\ Stage /\ (Solo => SoloInv)
<1>1. Init => Inv
  BY InitType, InitStage, InitSolo
<1>2. Inv /\ [Next]_vars => Inv'
  <2> SUFFICES ASSUME Inv, [Next]_vars PROVE Inv'
    OBVIOUS
  <2>1. Solo' <=> Solo
    BY ScanStays DEF Solo
  <2> QED
    BY <2>1, NextType, NextStage, NextSolo
<1>3. Inv => SoleWorkerExact
  <2> SUFFICES ASSUME Inv, Solo, NEW k \in Asked, NEW b \in VerdictsOf(k)
               PROVE  b = IF k \in scan.open THEN "open_ports" ELSE "closed_filtered_ports"
    BY DEF SoleWorkerExact, Solo
  <2>1. k \in Targets \X Ports
    BY AskedAreKeys DEF TypeOK, Keys
  <2>2. k[1] \in Targets /\ k[2] \in Ports /\ k = <<k[1], k[2]>>
    BY <2>1
  <2>3. b \in Buckets /\ Seen(k[1], k[2], b)
    BY DEF VerdictsOf, Seen
  <2>4. b = Truth(k[1], k[2])
    BY <2>2, <2>3 DEF SoloInv
  <2> QED
    BY <2>2, <2>4 DEF Truth
<1> QED
  BY <1>1, <1>2, <1>3, PTL DEF Spec

-----------------------------------------------------------------------------
(* How many packets a zombie sends *)

\* What an attempt at a job can still make a zombie send: the answer to the first probe, the
\* RST and the answer to the second probe.
NextPacket(w) ==
  CASE worker[w].pc = "first probe"  -> 1
    [] worker[w].pc = "spoof"        -> 2
    [] worker[w].pc = "second probe" -> 3
    [] OTHER -> 4
Ahead(w, a, n) == a > worker[w].attempt \/ (a = worker[w].attempt /\ n >= NextPacket(w))

\* The n-th packet of the attempt a at the job j may still come.
Left(j, a, n) ==
  \/ j > taken
  \/ \E w \in Workers : worker[w].job = j /\ Ahead(w, a, n)
  \/ n = 2 /\ \E d \in due : d.job = j /\ d.attempt = a

Packets == ((1..Len(jobs)) \X Attempts) \X (1..3)
Unspent == {x \in Packets : Left(x[1][1], x[1][2], x[2])}
Budget(z) == Cardinality(Unspent) + chatter[z]

\* As many packets as the zombies of a scan send while it judges its ports, at most.
Traffic == Len(jobs) * scan.max_retries * 3 + scan.chatter

LEMMA PacketsFinite ==
  ASSUME TypeOK
  PROVE  /\ IsFiniteSet(Packets) /\ Cardinality(Packets) + scan.chatter = Traffic
         /\ Traffic \in Nat
<1>1. Len(jobs) \in Nat /\ scan.max_retries \in Nat \ {0} /\ scan.chatter \in Nat
  BY JobsType, ScanFields DEF TypeOK
<1> DEFINE J == 1..Len(jobs)
           A == Attempts
           N == 1..3
<1>2. ASSUME NEW a \in Nat, NEW b \in Nat, NEW S, S = a .. b - 1 + a
      PROVE  IsFiniteSet(S) /\ Cardinality(S) = b
  <2>1. b - 1 + a \in Int /\ a \in Int
    OBVIOUS
  <2>2. IsFiniteSet(a .. b - 1 + a) /\ Cardinality(a .. b - 1 + a) = b
    BY <2>1, FS_Interval
  <2> QED
    BY <1>2, <2>2
<1>3. J = 1 .. Len(jobs) - 1 + 1 /\ A = 0 .. scan.max_retries - 1 + 0 /\ N = 1 .. 3 - 1 + 1
  BY <1>1 DEF Attempts
<1> HIDE DEF J, A, N
<1>4. /\ IsFiniteSet(J) /\ Cardinality(J) = Len(jobs)
      /\ IsFiniteSet(A) /\ Cardinality(A) = scan.max_retries
      /\ IsFiniteSet(N) /\ Cardinality(N) = 3
  <2>1. IsFiniteSet(J) /\ Cardinality(J) = Len(jobs)
    BY <1>1, <1>2, <1>3
  <2>2. IsFiniteSet(A) /\ Cardinality(A) = scan.max_retries
    BY <1>1, <1>2, <1>3
  <2>3. IsFiniteSet(N) /\ Cardinality(N) = 3
    BY <1>2, <1>3
  <2> QED
    BY <2>1, <2>2, <2>3
<1>5. IsFiniteSet(J \X A) /\ Cardinality(J \X A) = Len(jobs) * scan.max_retries
  BY <1>4, FS_Product
<1>6. /\ IsFiniteSet((J \X A) \X N)
      /\ Cardinality((J \X A) \X N) = Len(jobs) * scan.max_retries * 3
  BY <1>4, <1>5, FS_Product
<1>7. Packets = (J \X A) \X N
  BY DEF Packets, J, A, N
<1>8. Len(jobs) * scan.max_retries * 3 \in Nat
  <2>1. \A x, y \in Nat : x * y \in Nat
    OBVIOUS
  <2> QED
    BY <1>1, <2>1
<1> QED
  BY <1>1, <1>6, <1>7, <1>8 DEF Traffic

LEMMA BudgetType ==
  ASSUME TypeOK
  PROVE  /\ Cardinality(Unspent) \in Nat /\ Cardinality(Unspent) + scan.chatter <= Traffic
         /\ IsFiniteSet(Unspent)
<1>1. Unspent \in SUBSET Packets
  BY DEF Unspent
<1>2. IsFiniteSet(Unspent) /\ Cardinality(Unspent) <= Cardinality(Packets)
  BY <1>1, PacketsFinite, FS_Subset
<1>3. Cardinality(Unspent) \in Nat /\ Cardinality(Packets) \in Nat /\ scan.chatter \in Nat
  BY <1>2, PacketsFinite, FS_CardinalityType, ScanFields DEF TypeOK
<1> QED
  BY <1>2, <1>3, PacketsFinite

\* A step that adds no packet, and one that a packet goes with.
LEMMA LeftShrinks ==
  ASSUME TypeOK, UNCHANGED <<scan, jobs>>,
         \A j \in 1..Len(jobs), a \in Attempts, n \in 1..3 : Left(j, a, n)' => Left(j, a, n)
  PROVE  /\ Unspent' \subseteq Unspent
         /\ Cardinality(Unspent') \in Nat
         /\ Cardinality(Unspent') <= Cardinality(Unspent)
<1>1. Packets' = Packets
  BY DEF Packets, Attempts
<1>2. ASSUME NEW x \in Unspent' PROVE x \in Unspent
  <2>1. x \in Packets /\ Left(x[1][1], x[1][2], x[2])'
    BY <1>1 DEF Unspent
  <2>2. x[1][1] \in 1..Len(jobs) /\ x[1][2] \in Attempts /\ x[2] \in 1..3
    BY <2>1 DEF Packets
  <2>3. Left(x[1][1], x[1][2], x[2])
    BY <2>1, <2>2
  <2> QED
    BY <2>1, <2>3 DEF Unspent
<1>3. Unspent' \in SUBSET Unspent
  BY <1>2
<1>4. IsFiniteSet(Unspent') /\ Cardinality(Unspent') <= Cardinality(Unspent)
  BY <1>3, BudgetType, FS_Subset
<1> QED
  BY <1>3, <1>4, FS_CardinalityType

LEMMA LeftGoes ==
  ASSUME TypeOK, UNCHANGED <<scan, jobs>>,
         \A j \in 1..Len(jobs), a \in Attempts, n \in 1..3 : Left(j, a, n)' => Left(j, a, n),
         NEW i \in 1..Len(jobs), NEW b \in Attempts, NEW m \in 1..3,
         Left(i, b, m), ~Left(i, b, m)'
  PROVE  Cardinality(Unspent') + 1 <= Cardinality(Unspent)
<1> DEFINE s == <<<<i, b>>, m>>
<1>1. s \in Packets /\ s[1][1] = i /\ s[1][2] = b /\ s[2] = m
  BY DEF Packets
<1>2. s \in Unspent
  BY <1>1 DEF Unspent
<1>3. s \notin Unspent'
  BY <1>1 DEF Unspent
<1> HIDE DEF s
<1>4. Unspent' \in SUBSET (Unspent \ {s})
  BY <1>3, LeftShrinks
<1>5. /\ IsFiniteSet(Unspent \ {s})
      /\ Cardinality(Unspent \ {s}) = Cardinality(Unspent) - 1
  BY <1>2, BudgetType, FS_RemoveElement
<1>6. Cardinality(Unspent') <= Cardinality(Unspent \ {s})
  BY <1>4, <1>5, FS_Subset
<1> QED
  BY <1>5, <1>6, BudgetType, LeftShrinks

\* A SYN-ACK that is due was asked for, and no thread will ask for it again.
DueSpent ==
  \A d \in due :
    /\ d.job \in 1..taken /\ d.attempt \in Attempts /\ d.zombie = jobs[d.job].zombie
    /\ \A w \in Workers : worker[w].job = d.job => ~Ahead(w, d.attempt, 2)

\* A thread that leaves its job or comes nearer to its end.
Onward(w) ==
  \/ worker'[w].job = 0
  \/ /\ worker'[w].job = worker[w].job
     /\ \A a \in Attempts, n \in 1..3 : Ahead(w, a, n)' => Ahead(w, a, n)

\* The thread has a packet of the zombie that it waited for.
Receives(w) ==
  /\ Sends(Z(w)) /\ due' = due
  /\ worker'[w].job = worker[w].job /\ worker'[w].attempt = worker[w].attempt
  /\ NextPacket(w) \in {1, 3} /\ NextPacket(w)' > NextPacket(w)
Asks(w) ==
  /\ On(w, "spoof") /\ due' = due \cup {Own(w)} /\ ip_id' = ip_id
  /\ worker'[w].job = worker[w].job /\ worker'[w].attempt = worker[w].attempt
  /\ worker'[w].pc = "second probe"

LEMMA WorkPackets ==
  ASSUME TypeOK, NEW w \in Workers, Step(w), ~Take(w)
  PROVE  /\ Onward(w)
         /\ Receives(w) \/ Asks(w) \/ UNCHANGED <<ip_id, due>>
<1>1. WorkStep(w)
  BY WorkStepEffect
<1>2. /\ worker[w] \in Threads(taken) /\ DOMAIN worker = Workers /\ scan' = scan
      /\ worker[w].attempt \in Int
  BY <1>1 DEF WorkStep, TypeOK, Threads, Attempts
<1>3. ASSUME worker'[w].job = worker[w].job, worker'[w].attempt = worker[w].attempt,
             NextPacket(w)' >= NextPacket(w)
      PROVE  Onward(w)
  <2>1. NextPacket(w) \in 1..4 /\ NextPacket(w)' \in 1..4
    BY DEF NextPacket
  <2> QED
    BY <1>3, <2>1 DEF Onward, Ahead
<1>4. CASE FirstProbe(w)
  <2>1. worker[w].pc = "first probe" /\ due' = due
    BY <1>4 DEF FirstProbe, On
  <2>2. \/ Sends(Z(w)) /\ worker'[w].pc \in {"spoof", "record"}
        \/ ip_id' = ip_id /\ worker'[w].pc = "record"
    <3>1. worker' = [worker EXCEPT ![w].pc = "spoof", ![w].id1 = ip_id'[Z(w)]]
            => worker'[w].pc = "spoof"
      BY <1>2 DEF Threads
    <3>2. Settle(w, "filtered_ports") => worker'[w].pc = "record"
      BY <1>2 DEF Settle, Threads
    <3>3. \/ /\ Sends(Z(w))
             /\ \/ Settle(w, "filtered_ports")
                \/ worker' = [worker EXCEPT ![w].pc = "spoof", ![w].id1 = ip_id'[Z(w)]]
          \/ ip_id' = ip_id /\ Settle(w, "filtered_ports")
      BY <1>4 DEF FirstProbe
    <3> QED
      BY <3>1, <3>2, <3>3
  <2>3. worker'[w].job = worker[w].job /\ worker'[w].attempt = worker[w].attempt
    <3>1. worker' = [worker EXCEPT ![w].pc = "spoof", ![w].id1 = ip_id'[Z(w)]]
            => worker'[w].job = worker[w].job /\ worker'[w].attempt = worker[w].attempt
      BY <1>2 DEF Threads
    <3>2. Settle(w, "filtered_ports")
            => worker'[w].job = worker[w].job /\ worker'[w].attempt = worker[w].attempt
      BY <1>2 DEF Settle, Threads
    <3>3. \/ Settle(w, "filtered_ports")
          \/ worker' = [worker EXCEPT ![w].pc = "spoof", ![w].id1 = ip_id'[Z(w)]]
      BY <1>4 DEF FirstProbe
    <3> QED
      BY <3>1, <3>2, <3>3
  <2>4. NextPacket(w) = 1 /\ NextPacket(w)' \in {2, 4}
    BY <2>1, <2>2 DEF NextPacket
  <2>5. NextPacket(w)' >= NextPacket(w) /\ NextPacket(w)' > NextPacket(w)
    BY <2>4
  <2>6. Onward(w)
    BY <1>3, <2>3, <2>5
  <2> QED
    BY <2>1, <2>2, <2>3, <2>4, <2>5, <2>6 DEF Receives
<1>5. CASE SpoofedSyn(w)
  <2>1. /\ worker[w].pc = "spoof" /\ ip_id' = ip_id
        /\ due' = due \/ due' = due \cup {Own(w)}
    BY <1>5 DEF SpoofedSyn, On
  <2>2. /\ worker'[w].job = worker[w].job /\ worker'[w].attempt = worker[w].attempt
        /\ worker'[w].pc = "second probe"
    BY <1>2, <1>5 DEF SpoofedSyn, Threads
  <2>3. NextPacket(w) = 2 /\ NextPacket(w)' = 3
    BY <2>1, <2>2 DEF NextPacket
  <2>4. NextPacket(w)' >= NextPacket(w)
    BY <2>3
  <2>5. Onward(w)
    BY <1>3, <2>2, <2>4
  <2> QED
    BY <2>1, <2>2, <2>5 DEF Asks, On
<1>6. CASE SecondProbe(w)
  <2>1. worker[w].pc = "second probe" /\ due' = due
    BY <1>6 DEF SecondProbe, On
  <2>2. Sends(Z(w)) \/ ip_id' = ip_id
    BY <1>6 DEF SecondProbe
  <2> DEFINE b == Judged(Diff(ip_id'[Z(w)], worker[w].id1))
  <2>3. Settle(w, b) \/ Settle(w, "filtered_ports")
    BY <1>6 DEF SecondProbe
  <2> HIDE DEF b
  <2>4. /\ worker'[w].job = worker[w].job /\ worker'[w].attempt = worker[w].attempt
        /\ worker'[w].pc = "record"
    BY <1>2, <2>3 DEF Settle, Threads
  <2>5. NextPacket(w) = 3 /\ NextPacket(w)' = 4
    BY <2>1, <2>4 DEF NextPacket
  <2>6. NextPacket(w)' >= NextPacket(w) /\ NextPacket(w)' > NextPacket(w)
    BY <2>5
  <2>7. Onward(w)
    BY <1>3, <2>4, <2>6
  <2> QED
    BY <2>1, <2>2, <2>4, <2>5, <2>6, <2>7 DEF Receives
<1>7. CASE RecordPort(w)
  <2>1. worker[w].pc = "record" /\ UNCHANGED <<ip_id, due>>
    BY <1>7 DEF RecordPort, On, environment
  <2>2. /\ worker'[w].job = worker[w].job /\ worker'[w].attempt = worker[w].attempt
        /\ worker'[w].pc = "name"
    BY <1>2, <1>7 DEF RecordPort, Threads
  <2>3. NextPacket(w) = 4 /\ NextPacket(w)' = 4
    BY <2>1, <2>2 DEF NextPacket
  <2> QED
    BY <1>3, <2>1, <2>2, <2>3
<1>8. CASE RecordService(w) \/ GiveUp(w)
  <2>1. Return(w) /\ UNCHANGED <<ip_id, due>>
    BY <1>8 DEF RecordService, GiveUp, environment
  <2>2. worker'[w].job = 0
    BY <1>2, <2>1 DEF Return, Idle
  <2> QED
    BY <2>1, <2>2 DEF Onward
<1>9. CASE CallRaises(w)
  <2>1. /\ worker[w].pc \in {"first probe", "spoof", "second probe"}
        /\ UNCHANGED <<ip_id, due>>
    BY <1>9 DEF CallRaises, environment
  <2>2. CASE worker' = [worker EXCEPT ![w].pc = "give_up"]
    <3>1. /\ worker'[w].job = worker[w].job /\ worker'[w].attempt = worker[w].attempt
          /\ worker'[w].pc = "give_up"
      BY <1>2, <2>2 DEF Threads
    <3>2. NextPacket(w) \in {1, 2, 3}
      BY <2>1 DEF NextPacket
    <3>3. NextPacket(w)' = 4
      BY <3>1 DEF NextPacket
    <3>4. NextPacket(w)' >= NextPacket(w)
      BY <3>2, <3>3
    <3> QED
      BY <1>3, <2>1, <3>1, <3>4
  <2>3. CASE worker' = [worker EXCEPT ![w].pc = "first probe", ![w].attempt = @ + 1]
    <3>1. /\ worker'[w].job = worker[w].job /\ worker'[w].attempt = worker[w].attempt + 1
      BY <1>2, <2>3 DEF Threads
    <3>2. ASSUME NEW a \in Attempts, NEW n \in 1..3, Ahead(w, a, n)'
          PROVE  a > worker[w].attempt
      <4>1. a \in Int
        BY DEF Attempts
      <4>2. a >= worker[w].attempt + 1
        BY <1>2, <3>1, <3>2, <4>1 DEF Ahead
      <4> QED
        BY <1>2, <4>1, <4>2
    <3> QED
      BY <2>1, <3>1, <3>2 DEF Onward, Ahead
  <2> QED
    BY <1>9, <2>2, <2>3 DEF CallRaises
<1> QED
  BY <1>4, <1>5, <1>6, <1>7, <1>8, <1>9 DEF Step

\* No packet is added, and the one a zombie sends to a thread is taken away.
LEMMA WorkLeft ==
  ASSUME TypeOK, Distinct, NEW w \in Workers, Step(w), ~Take(w)
  PROVE  /\ \A j \in 1..Len(jobs), a \in Attempts, n \in 1..3 : Left(j, a, n)' => Left(j, a, n)
         /\ Receives(w) =>
              \E j \in 1..Len(jobs), a \in Attempts, n \in 1..3 : Left(j, a, n) /\ ~Left(j, a, n)'
<1>1. /\ WorkStep(w) /\ Onward(w)
      /\ Receives(w) \/ Asks(w) \/ UNCHANGED <<ip_id, due>>
  BY WorkStepEffect, WorkPackets
<1>2. /\ UNCHANGED <<scan, jobs, taken>> /\ ~On(w, "idle")
      /\ \A v \in Workers \ {w} : worker'[v] = worker[v]
      /\ worker[w].job \in 1..taken /\ taken \in 0..Len(jobs) /\ Len(jobs) \in Nat
      /\ worker[w].attempt \in Attempts /\ Attempts' = Attempts
  BY <1>1, BusyWorker, JobsType DEF WorkStep, progress, TypeOK, Threads, Attempts
<1>3. \A v \in Workers \ {w}, a \in Attempts, n \in 1..3 : Ahead(v, a, n)' <=> Ahead(v, a, n)
  BY <1>2 DEF Ahead, NextPacket
<1>4. ASSUME NEW j \in 1..Len(jobs), NEW a \in Attempts, NEW n \in 1..3, Left(j, a, n)'
      PROVE  Left(j, a, n)
  <2>1. CASE j > taken'
    BY <1>2, <2>1 DEF Left
  <2>2. CASE \E v \in Workers : worker'[v].job = j /\ Ahead(v, a, n)'
    <3>1. PICK v \in Workers : worker'[v].job = j /\ Ahead(v, a, n)'
      BY <2>2
    <3>2. worker[v].job = j /\ Ahead(v, a, n)
      BY <1>1, <1>2, <1>3, <3>1 DEF Onward
    <3> QED
      BY <3>2 DEF Left
  <2>3. CASE n = 2 /\ \E d \in due' : d.job = j /\ d.attempt = a
    <3>1. PICK d \in due' : d.job = j /\ d.attempt = a
      BY <2>3
    <3>2. CASE d \in due
      BY <2>3, <3>1, <3>2 DEF Left
    <3>3. CASE d \notin due
      <4>1. Asks(w) /\ d = Own(w)
        BY <1>1, <3>3 DEF Receives, Asks
      <4>2. worker[w].pc = "spoof" /\ worker[w].job = j /\ worker[w].attempt = a
        BY <3>1, <4>1 DEF Asks, On, Own
      <4>3. NextPacket(w) = 2
        BY <4>2 DEF NextPacket
      <4>4. Ahead(w, a, n)
        BY <2>3, <4>2, <4>3 DEF Ahead
      <4> QED
        BY <4>2, <4>4 DEF Left
    <3> QED
      BY <3>2, <3>3
  <2> QED
    BY <1>4, <2>1, <2>2, <2>3 DEF Left
<1>5. ASSUME Receives(w)
      PROVE  \E j \in 1..Len(jobs), a \in Attempts, n \in 1..3 : Left(j, a, n) /\ ~Left(j, a, n)'
  <2>1. PICK j \in 1..taken, a \in Attempts, n \in {1, 3} :
          j = worker[w].job /\ a = worker[w].attempt /\ n = NextPacket(w)
    BY <1>2, <1>5 DEF Receives
  <2>2. j \in 1..Len(jobs) /\ ~(j > taken) /\ n \in 1..3 /\ n # 2
    BY <1>2, <2>1
  <2>3. Left(j, a, n)
    BY <2>1 DEF Left, Ahead
  <2>4. ~Ahead(w, a, n)'
    <3>1. NextPacket(w)' > n /\ worker'[w].attempt = a
      BY <1>5, <2>1 DEF Receives
    <3>3. NextPacket(w)' \in 1..4
      BY DEF NextPacket
    <3>2. a \in Int
      BY DEF Attempts
    <3> QED
      BY <2>1, <3>1, <3>2, <3>3 DEF Ahead
  <2>5. ASSUME NEW v \in Workers, worker'[v].job = j PROVE v = w
    BY <1>2, <2>1, <2>5 DEF Distinct
  <2>6. ~Left(j, a, n)'
    BY <1>2, <2>2, <2>4, <2>5 DEF Left
  <2> QED
    BY <2>2, <2>3, <2>6
<1> QED
  BY <1>4, <1>5

LEMMA WorkDueSpent ==
  ASSUME TypeOK, Distinct, DueSpent, NEW w \in Workers, Step(w), ~Take(w)
  PROVE  DueSpent'
<1>1. /\ WorkStep(w) /\ Onward(w)
      /\ Receives(w) \/ Asks(w) \/ UNCHANGED <<ip_id, due>>
  BY WorkStepEffect, WorkPackets
<1>2. /\ UNCHANGED <<scan, jobs, taken>> /\ ~On(w, "idle")
      /\ \A v \in Workers \ {w} : worker'[v] = worker[v]
      /\ worker[w].job \in 1..taken /\ worker[w].attempt \in Attempts /\ Attempts' = Attempts
  BY <1>1, BusyWorker DEF WorkStep, progress, TypeOK, Threads, Attempts
<1>3. \A v \in Workers \ {w}, a \in Attempts, n \in 1..3 : Ahead(v, a, n)' <=> Ahead(v, a, n)
  BY <1>2 DEF Ahead, NextPacket
<1> SUFFICES ASSUME NEW d \in due'
             PROVE  /\ d.job \in 1..taken /\ d.attempt \in Attempts
                    /\ d.zombie = jobs[d.job].zombie
                    /\ \A v \in Workers : worker'[v].job = d.job => ~Ahead(v, d.attempt, 2)'
  BY <1>2 DEF DueSpent
<1>4. CASE d \in due
  <2>1. /\ d.job \in 1..taken /\ d.attempt \in Attempts /\ d.zombie = jobs[d.job].zombie
        /\ \A v \in Workers : worker[v].job = d.job => ~Ahead(v, d.attempt, 2)
    BY <1>4 DEF DueSpent
  <2>2. ASSUME NEW v \in Workers, worker'[v].job = d.job, Ahead(v, d.attempt, 2)'
        PROVE  FALSE
    <3>1. d.job # 0
      BY <2>1
    <3>2. worker[v].job = d.job /\ Ahead(v, d.attempt, 2)
      BY <1>1, <1>2, <1>3, <2>1, <2>2, <3>1 DEF Onward
    <3> QED
      BY <2>1, <3>2
  <2> QED
    BY <2>1, <2>2
<1>5. CASE d \notin due
  <2>1. Asks(w) /\ d = Own(w)
    BY <1>1, <1>5 DEF Receives, Asks
  <2>2. d.job = worker[w].job /\ d.attempt = worker[w].attempt /\ d.zombie = jobs[d.job].zombie
    BY <2>1 DEF Own, Z, Job
  <2>3. ~Ahead(w, d.attempt, 2)'
    <3>1. worker'[w].attempt = d.attempt /\ worker'[w].pc = "second probe"
      BY <2>1, <2>2 DEF Asks
    <3>2. NextPacket(w)' = 3
      BY <3>1 DEF NextPacket
    <3>3. d.attempt \in Int
      BY <1>2, <2>2 DEF Attempts
    <3> DEFINE a == d.attempt
    <3>4. a \in Int /\ worker'[w].attempt = a
      BY <3>1, <3>3
    <3> HIDE DEF a
    <3>5. ~(a > worker'[w].attempt) /\ ~(2 >= NextPacket(w)')
      BY <3>2, <3>4
    <3>6. ~Ahead(w, a, 2)'
      BY <3>5 DEF Ahead
    <3> QED
      BY <3>6 DEF a
  <2>4. ASSUME NEW v \in Workers, worker'[v].job = d.job PROVE v = w
    BY <1>2, <2>2, <2>4 DEF Distinct
  <2> QED
    BY <1>2, <2>2, <2>3, <2>4
<1> QED
  BY <1>4, <1>5

\* The budgets after a step of a thread.
LEMMA WorkBudget ==
  ASSUME TypeOK, Distinct, NEW w \in Workers, Step(w), ~Take(w)
  PROVE  /\ Cardinality(Unspent') \in Nat
         /\ \A z \in Zombies : Budget(z)' <= Budget(z)
         /\ Receives(w) => \A z \in Zombies : Budget(z)' + 1 <= Budget(z)
<1>1. UNCHANGED <<scan, jobs, chatter>>
  BY WorkStepEffect DEF WorkStep, progress
<1>2. \A j \in 1..Len(jobs), a \in Attempts, n \in 1..3 : Left(j, a, n)' => Left(j, a, n)
  BY WorkLeft
<1>3. Cardinality(Unspent') \in Nat /\ Cardinality(Unspent') <= Cardinality(Unspent)
  BY <1>1, <1>2, LeftShrinks
<1>4. ASSUME Receives(w) PROVE Cardinality(Unspent') + 1 <= Cardinality(Unspent)
  <2>1. PICK j \in 1..Len(jobs), a \in Attempts, n \in 1..3 : Left(j, a, n) /\ ~Left(j, a, n)'
    BY <1>4, WorkLeft
  <2> QED
    BY <1>1, <1>2, <2>1, LeftGoes
<1>5. Cardinality(Unspent) \in Nat /\ \A z \in Zombies : chatter[z] \in Nat
  BY BudgetType DEF TypeOK
<1> QED
  BY <1>1, <1>3, <1>4, <1>5 DEF Budget

-----------------------------------------------------------------------------
(* An open port is not taken for closed *)

\* The zombie has sent k packets since the first probe of w, and what it can still send does
\* not take the counter round to where it was; one of them answers the SYN-ACK of an open port.
Lag(w, k) ==
  /\ ip_id[Z(w)] \in {worker[w].id1 + k, worker[w].id1 + k - IdSpace}
  /\ k + Budget(Z(w)) <= Traffic
  /\ On(w, "second probe") /\ <<T(w), P(w)>> \in scan.open => Own(w) \in due \/ k >= 1

Wary(w) ==
  /\ worker[w].pc \in {"spoof", "second probe"} => \E k \in Nat : Lag(w, k)
  /\ On(w, "record") /\ worker[w].bucket = "closed_filtered_ports" =>
       <<T(w), P(w)>> \notin scan.open

Closed(t, p) == Seen(t, p, "closed_filtered_ports")
Heard == ~May("lost") /\ ~May("late") /\ Traffic < IdSpace

WaryInv ==
  /\ DueSpent
  /\ \A z \in Zombies : chatter[z] <= scan.chatter
  /\ Heard => /\ \A w \in Workers : Wary(w)
              /\ \A t \in Targets, p \in Ports : Closed(t, p) => <<t, p>> \notin scan.open

\* One identifier further, and the difference of two identifiers.
LEMMA OneFurther ==
  ASSUME NEW i \in Ids, NEW a \in Ids, NEW k \in Nat, k + 1 < IdSpace,
         i \in {a + k, a + k - IdSpace}
  PROVE  (i + 1) % IdSpace \in {a + (k + 1), a + (k + 1) - IdSpace}
<1>1. IdSpace \in Nat /\ IdSpace > 2 /\ i \in 0 .. IdSpace - 1 /\ a \in 0 .. IdSpace - 1
  BY ScanAssumption DEF Ids
<1>2. /\ \A x \in 0 .. IdSpace - 1 : x % IdSpace = x
      /\ IdSpace % IdSpace = 0
  BY <1>1, Remainders
<1>3. CASE i + 1 = IdSpace
  <2>1. (i + 1) % IdSpace = 0
    BY <1>2, <1>3
  <2>2. i = a + k
    BY <1>1, <1>3
  <2>3. a + (k + 1) - IdSpace = 0
    BY <1>1, <1>3, <2>2
  <2> QED
    BY <2>1, <2>3
<1>4. CASE i + 1 < IdSpace
  <2>1. (i + 1) % IdSpace = i + 1
    BY <1>1, <1>2, <1>4
  <2>2. i + 1 \in {a + (k + 1), a + (k + 1) - IdSpace}
    BY <1>1
  <2> QED
    BY <2>1, <2>2
<1> QED
  BY <1>1, <1>3, <1>4

LEMMA LagIsDiff ==
  ASSUME NEW i \in Ids, NEW a \in Ids, NEW k \in Nat, k < IdSpace,
         i \in {a + k, a + k - IdSpace}
  PROVE  Diff(i, a) = k
<1>1. IdSpace \in Nat /\ IdSpace > 2 /\ i \in 0 .. IdSpace - 1 /\ a \in 0 .. IdSpace - 1
  BY ScanAssumption DEF Ids
<1>2. /\ \A x \in 0 .. IdSpace - 1 : x % IdSpace = x
      /\ \A x \in -IdSpace .. -1 : x % IdSpace = x + IdSpace
  BY <1>1, Remainders
<1>3. CASE i = a + k
  <2>1. i - a = k /\ k \in 0 .. IdSpace - 1
    BY <1>1, <1>3
  <2> QED
    BY <1>2, <2>1 DEF Diff
<1>4. CASE i = a + k - IdSpace
  <2>1. i - a = k - IdSpace /\ k - IdSpace \in -IdSpace .. -1 /\ k - IdSpace + IdSpace = k
    BY <1>1, <1>4
  <2> QED
    BY <1>2, <2>1 DEF Diff
<1> QED
  BY <1>3, <1>4

\* What the steps of others do to the lag of a thread: nothing, or one packet of its zombie.
LEMMA LagKeeps ==
  ASSUME TypeOK, TypeOK', NEW v \in Workers, ~On(v, "idle"), UNCHANGED <<scan, jobs>>,
         worker'[v] = worker[v], NEW k \in Nat, NEW m \in Nat, m >= k, Lag(v, k),
         Own(v) \in due => Own(v) \in due' \/ m >= 1, Cardinality(Unspent') \in Nat,
         ip_id'[Z(v)] \in {worker[v].id1 + m, worker[v].id1 + m - IdSpace},
         NEW z \in Zombies, z = Z(v), m + Budget(z)' <= k + Budget(z)
  PROVE  Lag(v, m)'
<1>1. /\ T(v)' = T(v) /\ P(v)' = P(v) /\ Z(v)' = Z(v) /\ Own(v)' = Own(v)
      /\ On(v, "second probe")' <=> On(v, "second probe")
      /\ Traffic' = Traffic
  BY DEF T, P, Z, Own, Job, On, Traffic
<1>2. Traffic \in Nat /\ Budget(z) \in Nat /\ Budget(z)' \in Nat
  <2>1. chatter[z] \in Nat /\ chatter'[z] \in Nat
    BY DEF TypeOK
  <2> QED
    BY <2>1, BudgetType, PacketsFinite DEF Budget
<1>3. k + Budget(z) <= Traffic
  BY DEF Lag
<1>4. m + Budget(z)' <= Traffic
  <2> DEFINE x == Budget(z)
             y == Budget(z)'
  <2>1. x \in Nat /\ y \in Nat /\ m + y <= k + x /\ k + x <= Traffic
    BY <1>2, <1>3
  <2> HIDE DEF x, y
  <2>2. m + y <= Traffic
    BY <1>2, <2>1
  <2> QED
    BY <2>2 DEF y
<1>5. m + (Cardinality(Unspent') + chatter'[Z(v)']) <= Traffic'
  BY <1>1, <1>4 DEF Budget
<1>6. On(v, "second probe") /\ <<T(v), P(v)>> \in scan.open => Own(v) \in due' \/ m >= 1
  <2>1. On(v, "second probe") /\ <<T(v), P(v)>> \in scan.open => Own(v) \in due \/ k >= 1
    BY DEF Lag
  <2>2. k >= 1 => m >= 1
    OBVIOUS
  <2> QED
    BY <2>1, <2>2
<1> QED
  BY <1>1, <1>5, <1>6 DEF Lag, Budget

LEMMA WaryStays ==
  ASSUME TypeOK, TypeOK', Traffic < IdSpace, NEW v \in Workers, Wary(v),
         UNCHANGED <<scan, jobs>>, worker'[v] = worker[v],
         Cardinality(Unspent') \in Nat, \A y \in Zombies : Budget(y)' <= Budget(y),
         \/ ip_id' = ip_id /\ due \subseteq due'
         \/ \E z \in Zombies : /\ Sends(z) /\ Budget(z)' + 1 <= Budget(z)
                               /\ \A d \in due \ due' : d.zombie = z
  PROVE  Wary(v)'
<1>1. T(v)' = T(v) /\ P(v)' = P(v) /\ (On(v, "record")' <=> On(v, "record"))
  BY DEF T, P, Job, On
<1>2. On(v, "record")' /\ worker'[v].bucket = "closed_filtered_ports" =>
        <<T(v)', P(v)'>> \notin scan'.open
  <2>1. On(v, "record") /\ worker[v].bucket = "closed_filtered_ports" =>
          <<T(v), P(v)>> \notin scan.open
    BY DEF Wary
  <2> QED
    BY <1>1, <2>1
<1>3. ASSUME worker'[v].pc \in {"spoof", "second probe"}
      PROVE  \E m \in Nat : Lag(v, m)'
  <2>1. ~On(v, "idle") /\ \E k \in Nat : Lag(v, k)
    BY <1>3 DEF Wary, On
  <2>2. PICK k \in Nat : Lag(v, k)
    BY <2>1
  <2>3. PICK y \in Zombies : y = Z(v)
    BY <2>1, BusyWorker
  <2>4. /\ ip_id[y] \in {worker[v].id1 + k, worker[v].id1 + k - IdSpace}
        /\ k + Budget(y) <= Traffic /\ Budget(y) \in Nat /\ Budget(y)' \in Nat /\ Traffic \in Nat
        /\ Budget(y)' <= Budget(y)
    <3>1. Lag(v, k) => k + Budget(Z(v)) <= Traffic
      BY DEF Lag
    <3>2. ip_id[y] \in {worker[v].id1 + k, worker[v].id1 + k - IdSpace}
      BY <2>2, <2>3 DEF Lag
    <3>3. chatter[y] \in Nat /\ chatter'[y] \in Nat
      BY DEF TypeOK
    <3>4. Budget(y) \in Nat /\ Budget(y)' \in Nat /\ Traffic \in Nat
      BY <3>3, BudgetType, PacketsFinite DEF Budget
    <3> QED
      BY <2>2, <2>3, <3>1, <3>2, <3>4
  <2>5. CASE ip_id'[y] = ip_id[y] /\ (Own(v) \in due => Own(v) \in due')
    <3>1. k + Budget(y)' <= k + Budget(y) /\ k >= k
      BY <2>4
    <3>2. Lag(v, k)'
      BY <2>1, <2>2, <2>3, <2>4, <2>5, <3>1, LagKeeps
    <3> QED
      BY <3>2
  <2>6. CASE Sends(y) /\ Budget(y)' + 1 <= Budget(y)
    <3> DEFINE m == k + 1
               x == Budget(y)
               n == Budget(y)'
    <3>1. /\ m \in Nat /\ m >= k /\ m >= 1 /\ m < IdSpace /\ IdSpace \in Nat
          /\ m + n <= k + x
      <4>1. k + x <= Traffic /\ x \in Nat /\ n \in Nat /\ n + 1 <= x
        BY <2>4, <2>6
      <4> HIDE DEF x, n
      <4> QED
        BY <2>4, <4>1, ScanAssumption
    <3>2. ip_id[y] \in Ids /\ worker[v].id1 \in Ids
      BY DEF TypeOK, Threads
    <3>3. ip_id'[y] = (ip_id[y] + 1) % IdSpace
      BY <2>6, NextId
    <3>4. ip_id'[y] \in {worker[v].id1 + m, worker[v].id1 + m - IdSpace}
      BY <2>4, <3>1, <3>2, <3>3, OneFurther
    <3> HIDE DEF m
    <3>5. Lag(v, m)'
      BY <2>1, <2>2, <2>3, <3>1, <3>4, LagKeeps
    <3> QED
      BY <3>1, <3>5
  <2>7. CASE ip_id' = ip_id /\ due \subseteq due'
    BY <2>5, <2>7
  <2>8. ASSUME NEW z \in Zombies, Sends(z), Budget(z)' + 1 <= Budget(z),
               \A d \in due \ due' : d.zombie = z, z # y
        PROVE  ip_id'[y] = ip_id[y] /\ (Own(v) \in due => Own(v) \in due')
    <3>1. ip_id'[y] = ip_id[y]
      BY <2>8, NextId
    <3>2. Own(v).zombie = y
      BY <2>3 DEF Own
    <3> QED
      BY <2>8, <3>1, <3>2
  <2> QED
    BY <2>5, <2>6, <2>7, <2>8
<1> QED
  BY <1>2, <1>3 DEF Wary

\* The thread that makes the step.
LEMMA WorkerStaysWary ==
  ASSUME TypeOK, TypeOK', Distinct, WaryInv, Heard, NEW w \in Workers, Step(w), ~Take(w)
  PROVE  Wary(w)'
<1>1. WorkStep(w)
  BY WorkStepEffect
<1>2. /\ ~On(w, "idle") /\ UNCHANGED <<scan, chatter, jobs>> /\ Traffic' = Traffic
      /\ DOMAIN worker = Workers /\ worker[w] \in Threads(taken)
      /\ T(w) \in Targets /\ P(w) \in Ports /\ Z(w) \in Zombies
      /\ ip_id \in [Zombies -> Ids] /\ worker[w].id1 \in Ids
      /\ worker'[w].job = worker[w].job =>
           T(w)' = T(w) /\ P(w)' = P(w) /\ Z(w)' = Z(w)
  BY <1>1, BusyWorker DEF WorkStep, progress, TypeOK, Threads, T, P, Z, Job, Traffic
<1>3. Wary(w) /\ ~May("lost") /\ ~May("late") /\ Traffic < IdSpace /\ Distinct
  BY DEF WaryInv, Heard
<1>4. ASSUME worker'[w].pc \notin {"spoof", "second probe", "record"}
      PROVE  Wary(w)'
  BY <1>4 DEF Wary, On
<1>5. CASE FirstProbe(w)
  <2>1. /\ Sends(Z(w)) /\ due' = due
        /\ \/ worker' = [worker EXCEPT ![w].pc = "spoof", ![w].id1 = ip_id'[Z(w)]]
           \/ Settle(w, "filtered_ports")
    BY <1>3, <1>5 DEF FirstProbe
  <2>2. CASE worker' = [worker EXCEPT ![w].pc = "spoof", ![w].id1 = ip_id'[Z(w)]]
    <3>1. /\ worker'[w].pc = "spoof" /\ worker'[w].id1 = ip_id'[Z(w)]
          /\ worker'[w].job = worker[w].job
      BY <1>2, <2>2 DEF Threads
    <3>2. PICK z \in Zombies : z = Z(w)
      BY <1>2
    <3>3. /\ Budget(z)' <= Budget(z) /\ Cardinality(Unspent') \in Nat
          /\ Cardinality(Unspent) \in Nat
          /\ Cardinality(Unspent) + scan.chatter <= Traffic
          /\ chatter[z] <= scan.chatter /\ chatter[z] \in Nat /\ scan.chatter \in Nat
          /\ Traffic \in Nat
      BY <1>3, WorkBudget, BudgetType, PacketsFinite, ScanFields DEF WaryInv, TypeOK
    <3>4. /\ 0 + (Cardinality(Unspent') + chatter'[Z(w)']) <= Traffic'
      BY <1>2, <3>1, <3>2, <3>3 DEF Budget
    <3>5. ip_id'[z] \in Int /\ worker'[w].id1 = ip_id'[Z(w)'] /\ worker'[w].id1 = ip_id'[z]
      BY <1>2, <3>1, <3>2 DEF TypeOK, Ids
    <3>6. Lag(w, 0)'
      <4>1. ip_id'[Z(w)'] = worker'[w].id1 + 0
        BY <3>5
      <4>2. ~On(w, "second probe")'
        BY <3>1 DEF On
      <4> QED
        BY <3>4, <4>1, <4>2 DEF Lag, Budget
    <3> QED
      BY <3>1, <3>6 DEF Wary, On
  <2>3. CASE Settle(w, "filtered_ports")
    <3>1. worker'[w].pc = "record" /\ worker'[w].bucket = "filtered_ports"
      BY <1>2, <2>3 DEF Settle, Threads
    <3> QED
      BY <3>1 DEF Wary
  <2> QED
    BY <2>1, <2>2, <2>3
<1>6. CASE SpoofedSyn(w)
  <2>1. /\ due' = (IF <<T(w), P(w)>> \in scan.open THEN due \cup {Own(w)} ELSE due)
        /\ worker[w].pc = "spoof" /\ ip_id' = ip_id
        /\ worker' = [worker EXCEPT ![w].pc = "second probe"]
    BY <1>3, <1>6 DEF SpoofedSyn, On
  <2>2. /\ worker'[w].pc = "second probe" /\ worker'[w].id1 = worker[w].id1
        /\ worker'[w].job = worker[w].job /\ worker'[w].attempt = worker[w].attempt
    BY <1>2, <2>1 DEF Threads
  <2>3. Own(w)' = Own(w)
    BY <1>2, <2>2 DEF Own
  <2>4. PICK k \in Nat : Lag(w, k)
    BY <1>3, <2>1 DEF Wary
  <2>5. PICK z \in Zombies : z = Z(w)
    BY <1>2
  <2>6. /\ Budget(z)' <= Budget(z) /\ k + Budget(z) <= Traffic
        /\ Cardinality(Unspent') \in Nat /\ Cardinality(Unspent) \in Nat
        /\ chatter[z] \in Nat /\ Traffic \in Nat
    <3>1. k + Budget(Z(w)) <= Traffic
      BY <2>4 DEF Lag
    <3>2. chatter[z] \in Nat
      BY DEF TypeOK
    <3> QED
      BY <1>3, <2>5, <3>1, <3>2, WorkBudget, BudgetType, PacketsFinite
  <2>7. k + (Cardinality(Unspent') + chatter'[Z(w)']) <= Traffic'
    <3>1. Budget(z)' = Cardinality(Unspent') + chatter'[Z(w)'] /\ Traffic' = Traffic
      BY <1>2, <2>2, <2>5 DEF Budget
    <3>2. Budget(z) \in Nat /\ Budget(z)' \in Nat
      BY <1>2, <2>6 DEF Budget
    <3> DEFINE x == Budget(z)
               y == Budget(z)'
    <3>3. x \in Nat /\ y \in Nat /\ y <= x /\ k + x <= Traffic
      BY <2>6, <3>2
    <3> HIDE DEF x, y
    <3>4. k + y <= Traffic
      BY <2>6, <3>3
    <3> QED
      BY <3>1, <3>4 DEF y
  <2>8. ip_id'[Z(w)'] \in {worker'[w].id1 + k, worker'[w].id1 + k - IdSpace}
    BY <1>2, <2>1, <2>2, <2>4 DEF Lag
  <2>9. <<T(w)', P(w)'>> \in scan'.open => Own(w)' \in due'
    BY <1>2, <2>1, <2>2, <2>3
  <2>10. Lag(w, k)'
    BY <2>7, <2>8, <2>9 DEF Lag, Budget
  <2> QED
    BY <2>2, <2>10 DEF Wary, On
<1>7. CASE SecondProbe(w)
  <2>1. /\ Own(w) \notin due /\ due' = due /\ Sends(Z(w)) /\ worker[w].pc = "second probe"
        /\ Settle(w, Judged(Diff(ip_id'[Z(w)], worker[w].id1)))
    BY <1>3, <1>7 DEF SecondProbe, On
  <2>2. PICK k \in Nat : Lag(w, k)
    BY <1>3, <2>1 DEF Wary
  <2>3. <<T(w), P(w)>> \in scan.open => k >= 1
    BY <2>1, <2>2 DEF Lag, On
  <2>4. PICK z \in Zombies : z = Z(w)
    BY <1>2
  <2>5. k + 1 < IdSpace
    <3>1. Receives(w)
      <4>1. ip_id' # ip_id
        <5>1. ip_id'[z] = (ip_id[z] + 1) % IdSpace /\ ip_id[z] \in Ids
          BY <1>2, <2>1, <2>4, NextId
        <5>2. (ip_id[z] + 1) % IdSpace # ip_id[z]
          <6> DEFINE i == ip_id[z]
          <6>1. i \in 0 .. IdSpace - 1 /\ IdSpace \in Nat /\ IdSpace > 2
            BY <5>1, ScanAssumption DEF Ids
          <6> HIDE DEF i
          <6> DEFINE j == (i + 1) % IdSpace
          <6>2. i + 1 = IdSpace => j = 0
            BY <6>1, Remainders
          <6>3. i + 1 < IdSpace => j = i + 1
            BY <6>1, Remainders
          <6> HIDE DEF j
          <6>5. j # i
            BY <6>1, <6>2, <6>3
          <6>4. (i + 1) % IdSpace # i
            BY <6>5 DEF j
          <6> QED
            BY <6>4 DEF i
        <5> QED
          BY <5>1, <5>2
      <4> QED
        BY <2>1, <4>1, WorkPackets DEF Asks
    <3>2. k + Budget(z) <= Traffic /\ Budget(z)' + 1 <= Budget(z)
      <4>1. k + Budget(Z(w)) <= Traffic
        BY <2>2 DEF Lag
      <4> QED
        BY <1>3, <2>4, <3>1, <4>1, WorkBudget
    <3>3. Budget(z) \in Nat /\ Budget(z)' \in Nat /\ Traffic \in Nat
      <4>1. chatter[z] \in Nat /\ chatter'[z] \in Nat
        BY DEF TypeOK
      <4>2. Cardinality(Unspent) \in Nat /\ Cardinality(Unspent') \in Nat
        BY <1>3, BudgetType, WorkBudget
      <4> QED
        BY <4>1, <4>2, PacketsFinite DEF Budget
    <3> DEFINE x == Budget(z)
               y == Budget(z)'
    <3>4. x \in Nat /\ y \in Nat /\ k + x <= Traffic /\ y + 1 <= x
      BY <3>2, <3>3
    <3> HIDE DEF x, y
    <3> QED
      BY <1>3, <3>3, <3>4, ScanAssumption
  <2>6. ip_id'[z] = (ip_id[z] + 1) % IdSpace /\ ip_id[z] \in Ids /\ ip_id'[z] \in Ids
    BY <1>2, <2>1, <2>4, NextId
  <2>7. ip_id[z] \in {worker[w].id1 + k, worker[w].id1 + k - IdSpace}
    BY <2>2, <2>4 DEF Lag
  <2>8. ip_id'[z] \in {worker[w].id1 + (k + 1), worker[w].id1 + (k + 1) - IdSpace}
    BY <1>2, <2>5, <2>6, <2>7, OneFurther
  <2>9. Diff(ip_id'[z], worker[w].id1) = k + 1
    <3> DEFINE m == k + 1
    <3>1. m \in Nat /\ m < IdSpace
      BY <2>5
    <3> HIDE DEF m
    <3>2. ip_id'[z] \in {worker[w].id1 + m, worker[w].id1 + m - IdSpace}
      BY <2>8 DEF m
    <3>3. Diff(ip_id'[z], worker[w].id1) = m
      BY <1>2, <2>6, <3>1, <3>2, LagIsDiff
    <3> QED
      BY <3>3 DEF m
  <2> DEFINE b == Judged(k + 1)
  <2>10. <<T(w), P(w)>> \in scan.open => b # "closed_filtered_ports"
    BY <2>3 DEF Judged
  <2>11. Settle(w, b)
    BY <2>1, <2>4, <2>9
  <2> HIDE DEF b
  <2>12. worker'[w].pc = "record" /\ worker'[w].bucket = b /\ worker'[w].job = worker[w].job
    BY <1>2, <2>11 DEF Settle, Threads
  <2> QED
    BY <1>2, <2>10, <2>12 DEF Wary, On
<1>8. CASE RecordPort(w)
  <2>1. worker'[w].pc = "name"
    BY <1>2, <1>8 DEF RecordPort, Threads
  <2> QED
    BY <1>4, <2>1
<1>9. CASE RecordService(w) \/ GiveUp(w)
  <2>1. Return(w)
    BY <1>9 DEF RecordService, GiveUp
  <2>2. worker'[w].pc = "idle"
    BY <1>2, <2>1 DEF Return, Idle
  <2> QED
    BY <1>4, <2>2
<1>10. CASE CallRaises(w)
  <2>1. worker'[w].pc \in {"give_up", "first probe"}
    BY <1>2, <1>10 DEF CallRaises, Threads
  <2> QED
    BY <1>4, <2>1
<1> QED
  BY <1>5, <1>6, <1>7, <1>8, <1>9, <1>10 DEF Step

LEMMA WorkWary ==
  ASSUME TypeOK, TypeOK', Distinct, WaryInv, NEW w \in Workers, Step(w), ~Take(w)
  PROVE  WaryInv'
<1>1. WorkStep(w)
  BY WorkStepEffect
<1>2. /\ UNCHANGED <<scan, chatter, jobs>> /\ ~On(w, "idle")
      /\ \A v \in Workers \ {w} : worker'[v] = worker[v]
      /\ (Heard' <=> Heard)
      /\ T(w) \in Targets /\ P(w) \in Ports /\ Z(w) \in Zombies
  BY <1>1, BusyWorker DEF WorkStep, progress, Heard, May, Traffic
<1>3. DueSpent'
  BY WorkDueSpent DEF WaryInv
<1>4. \A z \in Zombies : chatter'[z] <= scan'.chatter
  BY <1>2 DEF WaryInv
<1>5. ASSUME Heard, NEW v \in Workers PROVE Wary(v)'
  <2>1. CASE v = w
    BY <1>5, <2>1, WorkerStaysWary
  <2>2. CASE v # w
    <3>1. /\ Cardinality(Unspent') \in Nat /\ \A y \in Zombies : Budget(y)' <= Budget(y)
          /\ Receives(w) => \A y \in Zombies : Budget(y)' + 1 <= Budget(y)
      BY WorkBudget
    <3>2. \/ ip_id' = ip_id /\ due \subseteq due'
          \/ \E z \in Zombies : /\ Sends(z) /\ Budget(z)' + 1 <= Budget(z)
                                /\ \A d \in due \ due' : d.zombie = z
      <4>1. CASE Receives(w)
        <5>1. PICK z \in Zombies : z = Z(w)
          BY <1>2
        <5>2. Sends(z) /\ due' = due /\ Budget(z)' + 1 <= Budget(z)
          BY <3>1, <4>1, <5>1 DEF Receives
        <5> QED
          BY <5>2
      <4>2. CASE Asks(w) \/ UNCHANGED <<ip_id, due>>
        BY <4>2 DEF Asks
      <4> QED
        BY <4>1, <4>2, WorkPackets
    <3>3. Wary(v) /\ Traffic < IdSpace
      BY <1>5 DEF WaryInv, Heard
    <3> QED
      BY <1>2, <2>2, <3>1, <3>2, <3>3, WaryStays
  <2> QED
    BY <2>1, <2>2
<1>6. ASSUME Heard, NEW t \in Targets, NEW p \in Ports, Closed(t, p)'
      PROVE  <<t, p>> \notin scan.open
  <2>1. ASSUME NEW B, NEW S, Lists(w, B, S)
        PROVE  Closed(t, p) \/ (t = T(w) /\ p = P(w) /\ "closed_filtered_ports" \in B)
    <3>1. "closed_filtered_ports" \in Buckets
      BY PrintedAreBuckets
    <3>2. Recorded(target_results'[t], "closed_filtered_ports") =
            Recorded(target_results[t], "closed_filtered_ports")
              \cup (IF t = T(w) /\ "closed_filtered_ports" \in B THEN {P(w)} ELSE {})
      BY <1>2, <2>1, <3>1, ListsRecorded
    <3>3. p \in Recorded(target_results'[t], "closed_filtered_ports")
      BY <1>6 DEF Closed, Seen
    <3>4. p \in Recorded(target_results[t], "closed_filtered_ports")
          \/ (t = T(w) /\ p = P(w) /\ "closed_filtered_ports" \in B)
      BY <3>2, <3>3
    <3> QED
      BY <3>4 DEF Closed, Seen
  <2>2. Closed(t, p) \/ (t = T(w) /\ p = P(w) /\ On(w, "record")
                           /\ worker[w].bucket = "closed_filtered_ports")
    <3>1. CASE AppendsPort(w)
      BY <2>1, <3>1 DEF AppendsPort
    <3>2. CASE AppendsService(w)
      BY <2>1, <3>2 DEF AppendsService
    <3>3. CASE AppendsBoth(w)
      BY <2>1, <3>3 DEF AppendsBoth
    <3>4. CASE target_results' = target_results
      BY <1>6, <3>4 DEF Closed, Seen
    <3> QED
      BY <1>1, <3>1, <3>2, <3>3, <3>4 DEF WorkStep, AppendsNothing
  <2>3. /\ Closed(t, p) => <<t, p>> \notin scan.open
        /\ Wary(w)
    BY <1>6 DEF WaryInv
  <2> QED
    BY <2>2, <2>3 DEF Wary
<1> QED
  BY <1>2, <1>3, <1>4, <1>5, <1>6 DEF WaryInv

LEMMA InitWary == Init => WaryInv
<1> SUFFICES ASSUME Init PROVE WaryInv
  OBVIOUS
<1>1. /\ target_results = [t \in Targets |-> initialize_target_results]
      /\ due = {} /\ \A w \in Workers : worker[w].pc = "idle"
      /\ chatter = [z \in Zombies |-> scan.chatter] /\ scan \in Scans
  BY DEF Init, Idle
<1>2. \A t \in Targets, p \in Ports : ~Closed(t, p)
  BY <1>1, NothingSeen, PrintedAreBuckets DEF Closed, Seen
<1>3. \A w \in Workers : Wary(w)
  BY <1>1 DEF Wary, On
<1>4. \A z \in Zombies : chatter[z] <= scan.chatter
  BY <1>1, ScanFields
<1> QED
  BY <1>1, <1>2, <1>3, <1>4 DEF WaryInv, DueSpent

\* The steps in which no thread moves.
LEMMA OthersLeft ==
  ASSUME TypeOK, DueSpent, UNCHANGED <<scan, jobs, taken, worker>>, due' \subseteq due
  PROVE  /\ DueSpent'
         /\ \A j \in 1..Len(jobs), a \in Attempts, n \in 1..3 : Left(j, a, n)' => Left(j, a, n)
         /\ Cardinality(Unspent') \in Nat /\ Cardinality(Unspent') <= Cardinality(Unspent)
         /\ Heard' <=> Heard
<1>1. \A w \in Workers, a \in Attempts, n \in 1..3 : Ahead(w, a, n)' <=> Ahead(w, a, n)
  BY DEF Ahead, NextPacket
<1>2. Attempts' = Attempts
  BY DEF Attempts
<1>3. ASSUME NEW d \in due'
      PROVE  /\ d.job \in 1..taken /\ d.attempt \in Attempts
             /\ d.zombie = jobs[d.job].zombie
             /\ \A w \in Workers : worker[w].job = d.job => ~Ahead(w, d.attempt, 2)'
  <2>1. /\ d.job \in 1..taken /\ d.attempt \in Attempts /\ d.zombie = jobs[d.job].zombie
        /\ \A w \in Workers : worker[w].job = d.job => ~Ahead(w, d.attempt, 2)
    BY <1>3 DEF DueSpent
  <2> QED
    BY <1>1, <2>1
<1>4. DueSpent'
  BY <1>2, <1>3 DEF DueSpent
<1>5. ASSUME NEW j \in 1..Len(jobs), NEW a \in Attempts, NEW n \in 1..3, Left(j, a, n)'
      PROVE  Left(j, a, n)
  BY <1>1, <1>5 DEF Left
<1>6. Cardinality(Unspent') \in Nat /\ Cardinality(Unspent') <= Cardinality(Unspent)
  BY <1>5, LeftShrinks
<1>7. Heard' <=> Heard
  BY DEF Heard, May, Traffic
<1> QED
  BY <1>4, <1>5, <1>6, <1>7

LEMMA NextWary ==
  TypeOK /\ TypeOK' /\ Stage /\ Distinct /\ WaryInv /\ [Next]_vars => WaryInv'
<1> SUFFICES ASSUME TypeOK, TypeOK', Stage, Distinct, WaryInv, [Next]_vars PROVE WaryInv'
  OBVIOUS
<1>1. scan' = scan /\ Attempts' = Attempts
  BY ScanStays DEF Attempts
<1>2. /\ DueSpent /\ (Heard => Traffic < IdSpace)
      /\ \A z \in Zombies : /\ chatter[z] <= scan.chatter
                            /\ chatter[z] \in Nat /\ chatter'[z] \in Nat
      /\ Cardinality(Unspent) \in Nat
      /\ Heard => /\ \A w \in Workers : Wary(w)
                  /\ \A t \in Targets, p \in Ports : Closed(t, p) => <<t, p>> \notin scan.open
  BY BudgetType DEF WaryInv, Heard, TypeOK
\* Steps that no thread makes.
<1>3. ASSUME UNCHANGED <<scan, target_results, worker, jobs, taken>>, due' \subseteq due,
             \A z \in Zombies : chatter'[z] <= chatter[z],
             \/ ip_id' = ip_id /\ due' = due
             \/ \E z \in Zombies : /\ Sends(z) /\ \A d \in due \ due' : d.zombie = z
                                   /\ \/ Cardinality(Unspent') + 1 <= Cardinality(Unspent)
                                      \/ chatter'[z] + 1 <= chatter[z]
      PROVE  WaryInv'
  <2>1. /\ DueSpent' /\ (Heard' <=> Heard) /\ Cardinality(Unspent') \in Nat
        /\ Cardinality(Unspent') <= Cardinality(Unspent)
    BY <1>2, <1>3, OthersLeft
  <2>2. \A y \in Zombies : Budget(y)' <= Budget(y)
    BY <1>2, <1>3, <2>1 DEF Budget
  <2>3. \/ ip_id' = ip_id /\ due \subseteq due'
        \/ \E z \in Zombies : /\ Sends(z) /\ Budget(z)' + 1 <= Budget(z)
                              /\ \A d \in due \ due' : d.zombie = z
    <3>1. ASSUME NEW z \in Zombies, \/ Cardinality(Unspent') + 1 <= Cardinality(Unspent)
                                    \/ chatter'[z] + 1 <= chatter[z]
          PROVE  Budget(z)' + 1 <= Budget(z)
      BY <1>2, <1>3, <2>1, <3>1 DEF Budget
    <3> QED
      BY <1>3, <3>1
  <2>4. ASSUME Heard, NEW v \in Workers PROVE Wary(v)'
    BY <1>2, <1>3, <2>1, <2>2, <2>3, <2>4, WaryStays
  <2>5. ASSUME NEW t, NEW p, Closed(t, p)' PROVE Closed(t, p)
    BY <1>3, <2>5 DEF Closed, Seen
  <2>6. \A z \in Zombies : chatter'[z] <= scan'.chatter
    BY <1>1, <1>2, <1>3, ScanFields DEF TypeOK
  <2> QED
    BY <1>1, <1>2, <2>1, <2>4, <2>5, <2>6 DEF WaryInv
<1>4. CASE UNCHANGED vars
  <2>1. UNCHANGED <<scan, target_results, worker, due, chatter, ip_id, jobs, taken>>
    BY <1>4 DEF vars, environment, progress
  <2>2. \A z \in Zombies : chatter'[z] <= chatter[z]
    BY <1>2, <2>1
  <2> QED
    BY <1>3, <2>1, <2>2
<1>5. ASSUME NEW d \in due, ZombieResets(d)
      PROVE  WaryInv'
  <2>1. /\ d.job \in 1..taken /\ d.attempt \in Attempts /\ d.zombie = jobs[d.job].zombie
        /\ \A w \in Workers : worker[w].job = d.job => ~Ahead(w, d.attempt, 2)
        /\ d \in [zombie : Zombies, job : Nat, attempt : Nat] /\ d.zombie \in Zombies
    BY <1>2 DEF DueSpent, TypeOK
  <2>2. /\ due' = due \ {d} /\ Sends(d.zombie)
        /\ UNCHANGED <<scan, target_results, worker, chatter, jobs, taken>>
    BY <1>5 DEF ZombieResets, progress
  <2>3. PICK j \in 1..taken, a \in Attempts, z \in Zombies :
          j = d.job /\ a = d.attempt /\ z = d.zombie
    BY <2>1
  <2>4. j \in 1..Len(jobs) /\ ~(j > taken)
    BY JobsType DEF TypeOK
  <2>5. Left(j, a, 2)
    BY <2>3 DEF Left
  <2>6. ~Left(j, a, 2)'
    <3>1. \A w \in Workers : worker'[w].job = j => ~Ahead(w, a, 2)'
      BY <2>1, <2>2, <2>3 DEF Ahead, NextPacket
    <3>2. ASSUME NEW e \in due', e.job = j, e.attempt = a PROVE FALSE
      <4>1. e \in due /\ e # d
        BY <2>2
      <4>2. e.zombie = d.zombie /\ e \in [zombie : Zombies, job : Nat, attempt : Nat]
        BY <1>2, <2>1, <2>3, <3>2, <4>1 DEF DueSpent, TypeOK
      <4>3. e = d
        BY <2>1, <2>3, <3>2, <4>2
      <4> QED
        BY <4>1, <4>3
    <3> QED
      BY <2>2, <2>4, <3>1, <3>2 DEF Left
  <2>7. due' \subseteq due /\ \A x \in due \ due' : x.zombie = z
    BY <2>2, <2>3
  <2>8. \A i \in 1..Len(jobs), b \in Attempts, n \in 1..3 : Left(i, b, n)' => Left(i, b, n)
    BY <1>2, <2>2, <2>7, OthersLeft
  <2>9. Cardinality(Unspent') + 1 <= Cardinality(Unspent)
    BY <2>2, <2>4, <2>5, <2>6, <2>8, LeftGoes
  <2>10. \A y \in Zombies : chatter'[y] <= chatter[y]
    BY <1>2, <2>2
  <2> QED
    BY <1>3, <2>2, <2>3, <2>7, <2>9, <2>10
<1>6. ASSUME NEW z \in Zombies, ZombieChatters(z)
      PROVE  WaryInv'
  <2>1. /\ Sends(z) /\ chatter[z] > 0 /\ chatter' = [chatter EXCEPT ![z] = chatter[z] - 1]
        /\ UNCHANGED <<scan, target_results, worker, due, jobs, taken>>
    BY <1>6 DEF ZombieChatters, progress
  <2>2. /\ chatter'[z] + 1 <= chatter[z]
        /\ \A y \in Zombies : chatter'[y] <= chatter[y]
    BY <1>2, <2>1 DEF TypeOK
  <2> QED
    BY <1>3, <2>1, <2>2
<1>7. CASE Main
  <2>1. Quiet /\ UNCHANGED <<worker, due, chatter, taken>>
    BY <1>7 DEF Main, TestZombie, TestRaises, StartScan, FinishScan, ReportTarget, FinishReport,
       environment, Stage, Quiet
  <2>2. \A w \in Workers : Wary(w)'
    <3>1. \A w \in Workers : worker'[w].pc = "idle"
      BY <2>1 DEF Quiet, On
    <3> QED
      BY <3>1 DEF Wary, On
  <2>3. \A z \in Zombies : chatter'[z] <= scan'.chatter
    BY <1>1, <1>2, <2>1
  <2>4. CASE StartScan
    <3>1. phase = "test" /\ target_results' = target_results
      BY <2>4 DEF StartScan
    <3>2. jobs = <<>> /\ taken = Len(jobs)
          /\ target_results = [t \in Targets |-> initialize_target_results]
      BY <3>1 DEF Stage
    <3>3. taken = 0
      BY <3>2
    <3>4. due' = {}
      BY <1>2, <2>1, <3>3 DEF DueSpent
    <3>5. \A t \in Targets, p \in Ports : ~Closed(t, p)'
      BY <3>1, <3>2, NothingSeen, PrintedAreBuckets DEF Closed, Seen
    <3> QED
      BY <2>2, <2>3, <3>4, <3>5 DEF WaryInv, DueSpent
  <2>5. CASE ~StartScan
    <3>1. jobs' = jobs
      BY <1>7, <2>5 DEF Main, TestZombie, TestRaises, FinishScan, ReportTarget, FinishReport
    <3>2. DueSpent' /\ (Heard' <=> Heard)
      BY <1>1, <1>2, <2>1, <3>1, OthersLeft
    <3>3. ASSUME NEW t \in Targets, NEW p \in Ports, Closed(t, p)' PROVE Closed(t, p)
      <4>1. CASE target_results' = target_results
        BY <3>3, <4>1 DEF Closed, Seen
      <4>2. CASE ReportTarget
        <5>1. \/ target_results'[t] = target_results[t]
              \/ target_results'[t] = SyncAndDeduplicate(target_results[t])
          BY <4>2 DEF ReportTarget, Write, TypeOK
        <5>2. "closed_filtered_ports" \in Buckets /\ target_results[t] \in Results
          BY PrintedAreBuckets DEF TypeOK
        <5> QED
          BY <3>3, <5>1, <5>2, SyncAndDeduplicateType DEF Closed, Seen
      <4> QED
        BY <1>7, <2>5, <4>1, <4>2 DEF Main, TestZombie, TestRaises, FinishScan, FinishReport
    <3> QED
      BY <1>1, <1>2, <2>2, <2>3, <3>2, <3>3 DEF WaryInv
  <2> QED
    BY <2>4, <2>5
<1>8. ASSUME NEW w \in Workers, Take(w)
      PROVE  WaryInv'
  <2>1. /\ worker[w].job = 0 /\ worker'[w].job = taken + 1 /\ worker'[w].pc = "first probe"
        /\ \A v \in Workers \ {w} : worker'[v] = worker[v]
        /\ taken' = taken + 1 /\ taken \in Nat /\ Len(jobs) \in Nat
        /\ UNCHANGED <<target_results, ip_id, due, chatter, jobs>>
    BY <1>8, TakeType, JobsType DEF Take, environment, TypeOK
  <2>2. \A v \in Workers \ {w}, a \in Attempts, n \in 1..3 : Ahead(v, a, n)' <=> Ahead(v, a, n)
    BY <2>1 DEF Ahead, NextPacket
  <2>3. \A j \in 1..Len(jobs), a \in Attempts, n \in 1..3 : Left(j, a, n)' => Left(j, a, n)
    <3>1. ASSUME NEW j \in 1..Len(jobs), NEW a \in Attempts, NEW n \in 1..3, Left(j, a, n)'
          PROVE  Left(j, a, n)
      <4>1. CASE j > taken
        BY <4>1 DEF Left
      <4>2. CASE ~(j > taken)
        <5> DEFINE m == taken
        <5>2. m \in Nat /\ taken' = m + 1 /\ worker'[w].job = m + 1 /\ ~(j > m)
          BY <2>1, <4>2
        <5> HIDE DEF m
        <5>1. ~(j > taken') /\ worker'[w].job # j
          BY <5>2
        <5> QED
          BY <2>1, <2>2, <3>1, <5>1 DEF Left
      <4> QED
        BY <4>1, <4>2
    <3> QED
      BY <3>1
  <2>4. DueSpent'
    <3> SUFFICES ASSUME NEW d \in due
                 PROVE  /\ d.job \in 1..taken' /\ d.attempt \in Attempts
                        /\ d.zombie = jobs[d.job].zombie
                        /\ \A v \in Workers : worker'[v].job = d.job => ~Ahead(v, d.attempt, 2)'
      BY <1>1, <2>1 DEF DueSpent
    <3>1. /\ d.job \in 1..taken /\ d.attempt \in Attempts /\ d.zombie = jobs[d.job].zombie
          /\ \A v \in Workers : worker[v].job = d.job => ~Ahead(v, d.attempt, 2)
      BY <1>2 DEF DueSpent
    <3> DEFINE m == taken
               i == d.job
               b == d.attempt
    <3>4. /\ m \in Nat /\ taken' = m + 1 /\ worker'[w].job = m + 1 /\ i \in 1..m
          /\ b \in Attempts
      BY <2>1, <3>1
    <3> HIDE DEF m, i, b
    <3>5. i \in 1..taken' /\ i # worker'[w].job
      BY <3>4
    <3>2. d.job \in 1..taken' /\ d.job # worker'[w].job
      BY <3>5 DEF i
    <3>3. ASSUME NEW v \in Workers, worker'[v].job = d.job PROVE ~Ahead(v, d.attempt, 2)'
      <4>1. v # w /\ worker[v].job = d.job
        BY <2>1, <3>2, <3>3
      <4>2. ~Ahead(v, b, 2)
        BY <3>1, <4>1 DEF b
      <4>3. ~Ahead(v, b, 2)'
        BY <2>2, <3>4, <4>1, <4>2
      <4> QED
        BY <4>3 DEF b
    <3> QED
      BY <3>1, <3>2, <3>3
  <2>5. Cardinality(Unspent') \in Nat /\ \A y \in Zombies : Budget(y)' <= Budget(y)
    <3>1. /\ Cardinality(Unspent') \in Nat
          /\ Cardinality(Unspent') <= Cardinality(Unspent)
      BY <1>1, <2>1, <2>3, LeftShrinks
    <3>2. ASSUME NEW y \in Zombies PROVE Budget(y)' <= Budget(y)
      <4>1. chatter'[y] = chatter[y] /\ chatter[y] \in Nat
        BY <1>2, <2>1
      <4> QED
        BY <1>2, <3>1, <4>1 DEF Budget
    <3> QED
      BY <3>1, <3>2
  <2>6. Heard' <=> Heard
    BY <1>1, <2>1 DEF Heard, May, Traffic
  <2>7. ASSUME Heard, NEW v \in Workers PROVE Wary(v)'
    <3>1. CASE v = w
      BY <2>1, <3>1 DEF Wary, On
    <3>2. CASE v # w
      BY <1>1, <1>2, <2>1, <2>5, <2>7, <3>2, WaryStays
    <3> QED
      BY <3>1, <3>2
  <2>8. ASSUME NEW t, NEW p, Closed(t, p)' PROVE Closed(t, p)
    BY <2>1, <2>8 DEF Closed, Seen
  <2>9. \A z \in Zombies : chatter'[z] <= scan'.chatter
    BY <1>1, <1>2, <2>1
  <2> QED
    BY <1>1, <1>2, <2>4, <2>6, <2>7, <2>8, <2>9 DEF WaryInv
<1>9. ASSUME NEW w \in Workers, Step(w), ~Take(w)
      PROVE  WaryInv'
  BY <1>9, WorkWary
<1> QED
  BY <1>4, <1>5, <1>6, <1>7, <1>8, <1>9 DEF Next, Zombie, Terminated

\* A port that is open is not taken for closed, for any number of threads and zombies, however
\* the packets of several threads and of the zombies themselves mix, and whichever calls raise:
\* what comes in between can only raise a difference.  The hypothesis keeps the counter from
\* going all the way round while a port is judged, which would make a difference small again;
\* with the 65536 identifiers of IP it holds for scans of thousands of ports.
THEOREM ClosedIsNotOpenHolds == Spec => [](Traffic < IdSpace => ClosedIsNotOpen)
<1> DEFINE Inv == TypeOK /\ Stage /\ VerdictInv /\ WaryInv
<1>1. Init => Inv
  BY InitType, InitStage, InitVerdict, InitWary
<1>2. Inv /\ [Next]_vars => Inv'
  <2> SUFFICES ASSUME Inv, [Next]_vars PROVE Inv'
    OBVIOUS
  <2>1. TypeOK' /\ Stage' /\ VerdictInv'
    BY NextType, NextStage, NextVerdict
  <2>2. Distinct
    BY DEF VerdictInv
  <2> QED
    BY <2>1, <2>2, NextWary
<1>3. Inv => (Traffic < IdSpace => ClosedIsNotOpen)
  <2> SUFFICES ASSUME Inv, Heard, NEW k \in Asked \cap scan.open,
                      "closed_filtered_ports" \in VerdictsOf(k)
               PROVE  FALSE
    BY DEF ClosedIsNotOpen, Heard
  <2>1. k \in Targets \X Ports
    BY AskedAreKeys DEF TypeOK, Keys
  <2>2. k[1] \in Targets /\ k[2] \in Ports /\ k = <<k[1], k[2]>>
    BY <2>1
  <2>3. Closed(k[1], k[2])
    BY DEF VerdictsOf, Closed, Seen
  <2> QED
    BY <2>2, <2>3 DEF WaryInv
<1> QED
  BY <1>1, <1>2, <1>3, PTL DEF Spec
=============================================================================
