------------------------ MODULE HostDiscovery_proofs ------------------------
(***************************************************************************)
(* Theorems about HostDiscovery, for any addresses, any set of discoveries *)
(* and any number of threads, with nested pools.                           *)
(***************************************************************************)
EXTENDS HostDiscovery, TLAPS

-----------------------------------------------------------------------------
(* The methods and the jobs of a discovery *)

LEMMA ScanFields ==
  ASSUME scan \in Discoveries
  PROVE  /\ scan \in DiscoveryType
         /\ scan.targets \in Seq(Targets) /\ scan.ports \in Nat \ {0}
         /\ scan.max_threads \in 1..MaxThreads
         /\ scan.recursively \in BOOLEAN /\ scan.ping_port \in BOOLEAN /\ scan.raise \in BOOLEAN
         /\ scan.methods \in {<<m>> : m \in Methods} \cup PingScans
  BY DiscoveryAssumption DEF DiscoveryType

\* A discovery has a method, and only a ping scan has several.
LEMMA MethodsType ==
  ASSUME scan \in Discoveries
  PROVE  /\ scan.methods \in Seq(Methods) /\ Len(scan.methods) \in Nat \ {0}
         /\ \A i \in DOMAIN scan.methods : scan.methods[i] \in {"udp", "arp", "ndp", "ip"} =>
              Len(scan.methods) = 1 /\ i = 1
<1>1. CASE scan.methods \in {<<m>> : m \in Methods}
  <2>1. PICK m \in Methods : scan.methods = <<m>>
    BY <1>1
  <2> QED
    BY <2>1
<1>2. CASE scan.methods = <<"icmp", "tcp", "ack", "icmp", "syn">>
  BY <1>2 DEF Methods
<1>3. CASE scan.methods = <<"icmpv6", "tcp", "ack", "syn">>
  BY <1>3 DEF Methods
<1> QED
  BY <1>1, <1>2, <1>3, ScanFields DEF PingScans

\* The place of a job in a loop over the targets around one over the ports.
LEMMA TargetOfJob ==
  ASSUME NEW L \in Nat, NEW E \in Nat \ {0}, NEW n \in 1..(L * E)
  PROVE  ((n - 1) \div E) + 1 \in 1..L
<1> DEFINE q == (n - 1) \div E
           x == (n - 1) % E
<1>1. /\ q \in Int /\ x \in 0..(E - 1)
      /\ n - 1 = E * q + x
  OBVIOUS
<1>2. q >= 0
  BY <1>1
<1>3. q < L
  <2>1. SUFFICES ASSUME q >= L PROVE FALSE
    BY <1>1
  <2> HIDE DEF q, x
  <2>2. E * q >= E * L
    BY <1>1, <2>1
  <2>3. n - 1 >= E * L
    BY <1>1, <2>2
  <2> QED
    BY <2>3
<1> QED
  BY <1>1, <1>2, <1>3

\* The first job for the target at place i.
LEMMA JobOfTarget ==
  ASSUME NEW L \in Nat, NEW E \in Nat \ {0}, NEW i \in 1..L
  PROVE  /\ E * (i - 1) + 1 \in 1..(L * E)
         /\ (((E * (i - 1) + 1) - 1) \div E) + 1 = i
<1> DEFINE k == E * (i - 1)
<1>1. k \in Nat /\ i - 1 \in Nat
  OBVIOUS
<1>2. k + E <= L * E
  <2>1. E * i <= E * L
    OBVIOUS
  <2>2. k + E = E * i
    OBVIOUS
  <2> QED
    BY <2>1, <2>2
<1>3. k \div E = i - 1
  OBVIOUS
<1> HIDE DEF k
<1>4. k + 1 \in 1..(L * E)
  BY <1>1, <1>2
<1>5. ((k + 1) - 1) \div E = i - 1
  BY <1>1, <1>3
<1> QED
  BY <1>4, <1>5 DEF k

LEMMA JobsType ==
  ASSUME scan \in Discoveries, NEW m
  PROVE  /\ Len(Jobs(m)) \in 0..MostJobs /\ Len(Jobs(m)) \in Nat
         /\ DOMAIN Jobs(m) = 1..Len(Jobs(m))
         /\ \A n \in DOMAIN Jobs(m) : \E i \in DOMAIN scan.targets : Jobs(m)[n] = scan.targets[i]
         /\ \A n \in DOMAIN Jobs(m) : Jobs(m)[n] \in Targets
         /\ \A i \in DOMAIN scan.targets : \E n \in DOMAIN Jobs(m) : Jobs(m)[n] = scan.targets[i]
         /\ m \notin PerPort \cup {"ip"} => Len(Jobs(m)) = Len(scan.targets)
                                            /\ \A n \in DOMAIN Jobs(m) : Jobs(m)[n] = scan.targets[n]
<1> DEFINE E == IF m \in PerPort \cup {"ip"} THEN scan.ports ELSE 1
           L == Len(scan.targets)
<1>1. E \in Nat \ {0} /\ L \in Nat /\ scan.targets \in Seq(Targets) /\ scan.ports \in Nat \ {0}
  BY ScanFields
<1>2. Jobs(m) = [n \in 1 .. L * E |-> scan.targets[((n - 1) \div E) + 1]]
  BY DEF Jobs
<1>3. L * E \in Nat /\ L * E <= L * scan.ports
  <2>1. CASE E = scan.ports
    BY <1>1, <2>1
  <2>2. CASE E = 1
    <3> HIDE DEF L, E
    <3>1. L * 1 <= L * scan.ports
      BY <1>1
    <3> QED
      BY <1>1, <2>2, <3>1
  <2> QED
    BY <2>1, <2>2
<1>4. Len(Jobs(m)) = L * E /\ DOMAIN Jobs(m) = 1 .. L * E
  <2> HIDE DEF L, E
  <2> QED
    BY <1>2, <1>3
<1>5. MostJobs = L * scan.ports
  BY DEF MostJobs
<1>6. ASSUME NEW n \in 1 .. L * E
      PROVE  ((n - 1) \div E) + 1 \in 1..L
             /\ Jobs(m)[n] = scan.targets[((n - 1) \div E) + 1]
  <2> HIDE DEF L, E
  <2> QED
    BY <1>1, <1>2, TargetOfJob
<1>7. ASSUME NEW i \in 1..L
      PROVE  \E n \in DOMAIN Jobs(m) : Jobs(m)[n] = scan.targets[i]
  <2> HIDE DEF L, E
  <2>1. E * (i - 1) + 1 \in 1..(L * E)
        /\ (((E * (i - 1) + 1) - 1) \div E) + 1 = i
    BY <1>1, JobOfTarget
  <2> DEFINE n == E * (i - 1) + 1
  <2>2. n \in DOMAIN Jobs(m)
    BY <1>4, <2>1
  <2>3. Jobs(m)[n] = scan.targets[((n - 1) \div E) + 1] /\ ((n - 1) \div E) + 1 = i
    BY <1>6, <2>1
  <2> HIDE DEF n
  <2> QED
    BY <2>2, <2>3
<1>8. m \notin PerPort \cup {"ip"} => L * E = L /\ \A n \in 1..(L * E) : ((n - 1) \div E) + 1 = n
  <2>1. ASSUME m \notin PerPort \cup {"ip"} PROVE E = 1
    BY <2>1
  <2> HIDE DEF L, E
  <2> QED
    BY <1>1, <2>1
<1>9. 1..L = DOMAIN scan.targets
  BY <1>1
<1> HIDE DEF L, E
<1>10. L * E \in 0 .. L * scan.ports
  BY <1>1, <1>3
<1>11. \A n \in DOMAIN Jobs(m) : \E i \in DOMAIN scan.targets : Jobs(m)[n] = scan.targets[i]
  BY <1>4, <1>6, <1>9
<1>12. \A n \in DOMAIN Jobs(m) : Jobs(m)[n] \in Targets
  BY <1>1, <1>11
<1>13. m \notin PerPort \cup {"ip"} =>
         Len(Jobs(m)) = L /\ \A n \in DOMAIN Jobs(m) : Jobs(m)[n] = scan.targets[n]
  BY <1>4, <1>6, <1>8
<1>14. Len(Jobs(m)) \in 0..MostJobs /\ Len(Jobs(m)) \in Nat
  BY <1>3, <1>4, <1>5, <1>10
<1>15. DOMAIN Jobs(m) = 1..Len(Jobs(m))
  BY <1>4
<1>16. \A i \in DOMAIN scan.targets : \E n \in DOMAIN Jobs(m) : Jobs(m)[n] = scan.targets[i]
  BY <1>7, <1>9
<1> QED
  BY <1>11, <1>12, <1>13, <1>14, <1>15, <1>16 DEF L

-----------------------------------------------------------------------------
(* Where the threads can be *)

\* What a thread remembers of the call it is in.
Local == [job : 0..MostJobs, pc : Labels, attempt : 0..1, verdict : Verdicts, seen : Nat]

\* The labels each method has.  Only an IP ping remembers another verdict than up.
Place(m, r) ==
  /\ r.pc \in {"read", "write"} => m \in {"icmp", "icmpv6", "ack", "ip"}
  /\ r.pc = "check" => m = "ack"
  /\ r.pc = "append" => m \in {"ack", "ndp"}
  /\ r.pc = "nested" => m = "icmp" /\ scan.recursively
  /\ r.pc # "idle" /\ m # "ip" => r.verdict = "up"

\* The pool a thread belongs to is open, if it is busy.
Owner(th) == th[1] # 0 => thread[<<0, th[1]>>].pc = "nested"

Control ==
  /\ \A p \in Pools : taken[p] <= Len(Jobs(MethodOf(p)))
  /\ \A th \in Threads : Place(M(th), thread[th])
  /\ \A th \in Threads : thread[th].pc # "idle" => th[2] <= scan.max_threads /\ Owner(th)
  /\ Over => \A th \in Threads : thread[th].pc = "idle"

TypeInv == TypeOK /\ Control

LEMMA Places ==
  /\ \A th \in Threads : th[1] \in Pools /\ th[2] \in 1..MaxThreads /\ th = <<th[1], th[2]>>
  /\ \A p \in Pools, w \in 1..MaxThreads : <<p, w>> \in Threads /\ <<p, w>>[1] = p /\ <<p, w>>[2] = w
  /\ \A p \in Pools : p \in Nat /\ (p # 0 => p \in 1..MaxThreads)
  /\ \A w \in 1..MaxThreads : w \in Pools /\ w # 0
  /\ 0 \in Pools
  BY DiscoveryAssumption DEF Threads, Pools

LEMMA MethodType ==
  ASSUME TypeOK, NEW p \in Pools
  PROVE  MethodOf(p) \in Methods
  BY MethodsType DEF TypeOK, MethodOf, Methods

\* A busy thread holds a job of its pool, for a target of the discovery.
LEMMA BusyThread ==
  ASSUME TypeInv, NEW th \in Threads, thread[th].pc # "idle"
  PROVE  /\ thread[th] \in Local
         /\ thread[th].job \in DOMAIN Jobs(M(th)) /\ thread[th].job # 0
         /\ T(th) \in Targets /\ M(th) \in Methods
         /\ \E i \in DOMAIN scan.targets : T(th) = scan.targets[i]
<1>1. th[1] \in Pools
  BY Places
<1>2. /\ thread[th] \in Local /\ thread[th].job # 0 /\ thread[th].job <= taken[th[1]]
      /\ taken[th[1]] \in 0..MostJobs
  BY <1>1 DEF TypeInv, TypeOK, Local
<1>3. taken[th[1]] <= Len(Jobs(M(th)))
  BY <1>1 DEF TypeInv, Control, M
<1>4. scan \in Discoveries /\ M(th) \in Methods
  BY <1>1, MethodType DEF TypeInv, TypeOK, M
<1>5. thread[th].job \in Nat /\ MostJobs \in Nat
  <2>1. MostJobs \in Nat
    BY <1>4, ScanFields DEF MostJobs
  <2> QED
    BY <1>2, <2>1 DEF Local
<1>6. thread[th].job \in 1..Len(Jobs(M(th))) /\ 1..Len(Jobs(M(th))) = DOMAIN Jobs(M(th))
  <2>1. Len(Jobs(M(th))) \in Nat /\ DOMAIN Jobs(M(th)) = 1..Len(Jobs(M(th)))
    BY <1>4, JobsType
  <2> QED
    BY <1>2, <1>3, <1>5, <2>1
<1> QED
  BY <1>2, <1>4, <1>6, JobsType DEF T

\* What the name of a method or the place of a job depends on.
LEMMA SameScan ==
  ASSUME UNCHANGED <<scan, step>>
  PROVE  /\ \A p : MethodOf(p)' = MethodOf(p)
         /\ \A th : M(th)' = M(th)
         /\ \A m : Jobs(m)' = Jobs(m)
         /\ \A m, r : Place(m, r)' = Place(m, r)
         /\ MostJobs' = MostJobs
  BY DEF MethodOf, M, Jobs, Place, MostJobs

LEMMA SameTarget ==
  ASSUME UNCHANGED <<scan, step>>, NEW th, thread'[th].job = thread[th].job
  PROVE  T(th)' = T(th)
  BY DEF MethodOf, M, Jobs, T

-----------------------------------------------------------------------------
(* How a thread moves *)

\* Thread th goes on with its job or ends it; no other thread moves.
Moves(th) ==
  /\ thread' \in [Threads -> Local]
  /\ \A x \in Threads \ {th} : thread'[x] = thread[x]
  /\ IF thread'[th].pc = "idle" THEN thread'[th].job = 0
                                ELSE thread'[th].job = thread[th].job
  /\ Place(M(th), thread'[th])

LEMMA ReturnMoves ==
  ASSUME TypeInv, NEW th \in Threads, Return(th)
  PROVE  Moves(th) /\ thread'[th] = Idle
<1>1. MostJobs \in Nat
  BY ScanFields DEF MostJobs, TypeInv, TypeOK
<1>2. Idle \in Local /\ Idle.pc = "idle" /\ Idle.job = 0
  BY <1>1 DEF Idle, Local, Labels, Verdicts
<1>3. thread \in [Threads -> Local]
  BY DEF TypeInv, TypeOK, Local
<1> QED
  BY <1>2, <1>3 DEF Return, Moves, Place

LEMMA GotoMoves ==
  ASSUME TypeInv, NEW th \in Threads, thread[th].pc # "idle",
         NEW label \in Labels \ {"idle"}, Goto(th, label),
         Place(M(th), [thread[th] EXCEPT !.pc = label])
  PROVE  /\ Moves(th)
         /\ thread'[th].pc = label /\ thread'[th].job = thread[th].job
         /\ thread'[th].verdict = thread[th].verdict
<1>1. thread \in [Threads -> Local] /\ thread[th] \in Local
  BY DEF TypeInv, TypeOK, Local
<1>2. thread'[th] = [thread[th] EXCEPT !.pc = label]
  BY <1>1 DEF Goto
<1>3. /\ thread'[th] \in Local /\ thread'[th].pc = label /\ thread'[th].job = thread[th].job
      /\ thread'[th].verdict = thread[th].verdict
  BY <1>1, <1>2 DEF Local
<1>4. thread' \in [Threads -> Local] /\ \A x \in Threads \ {th} : thread'[x] = thread[x]
  BY <1>1, <1>2, <1>3 DEF Goto
<1> QED
  BY <1>2, <1>3, <1>4 DEF Moves

-----------------------------------------------------------------------------
(* The steps of a call, but for its beginning, an exception and a nested pool *)

Ordinary(th) ==
  \/ LoopbackUp(th) \/ TcpUp(th) \/ TcpDown(th) \/ PingUp(th) \/ PingSilent(th)
  \/ IcmpUp(th) \/ IcmpSilent(th)
  \/ AckUp(th) \/ AckSilent(th) \/ Check(th) \/ AppendHost(th)
  \/ ArpUp(th) \/ ArpSilent(th) \/ NdpUp(th) \/ NdpSilent(th) \/ NdpSkips(th)
  \/ IpProbe(th) \/ ReadCount(th) \/ WriteCount(th)

LEMMA OrdinaryMoves ==
  ASSUME TypeInv, NEW th \in Threads, Ordinary(th)
  PROVE  /\ Moves(th) /\ thread'[th].pc # "nested"
         /\ thread[th].pc \notin {"idle", "nested"}
         /\ UNCHANGED <<scan, step, taken, judged, phase, shown_down>>
<1> USE DEF said, lists
<1>1. ASSUME Return(th), thread[th].pc \notin {"idle", "nested"}
      PROVE  Moves(th) /\ thread'[th].pc # "nested"
  BY <1>1, ReturnMoves DEF Idle
<1>2. Place(M(th), thread[th]) /\ thread[th] \in Local
  BY DEF TypeInv, Control, TypeOK, Local
<1>3. ASSUME thread[th].pc \notin {"idle", "nested"}, NEW label \in Labels \ {"idle", "nested"},
             Goto(th, label),
             label \in {"read", "write"} => M(th) \in {"icmp", "icmpv6", "ack", "ip"},
             label = "check" => M(th) = "ack",
             label = "append" => M(th) \in {"ack", "ndp"}
      PROVE  Moves(th) /\ thread'[th].pc # "nested"
  <2>1. Place(M(th), [thread[th] EXCEPT !.pc = label])
    BY <1>2, <1>3 DEF Place, Local
  <2> QED
    BY <1>3, <2>1, GotoMoves
<1>4. CASE LoopbackUp(th)
  BY <1>1, <1>4 DEF LoopbackUp, At
<1>5. CASE TcpUp(th)
  BY <1>1, <1>5 DEF TcpUp, Probing, At
<1>6. CASE TcpDown(th)
  BY <1>1, <1>6 DEF TcpDown, Probing, At
<1>7. CASE PingUp(th)
  BY <1>1, <1>7 DEF PingUp, Probing, At
<1>8. CASE PingSilent(th)
  BY <1>1, <1>8 DEF PingSilent, Probing, At
<1>9. CASE IcmpUp(th)
  BY <1>3, <1>9 DEF IcmpUp, Probing, At, Labels
<1>10. CASE IcmpSilent(th)
  BY <1>1, <1>10 DEF IcmpSilent, Probing, At
<1>11. CASE AckUp(th)
  BY <1>3, <1>11 DEF AckUp, Probing, At, Labels
<1>12. CASE AckSilent(th)
  BY <1>1, <1>3, <1>12 DEF AckSilent, Probing, At, Labels
<1>13. CASE Check(th)
  BY <1>1, <1>3, <1>13 DEF Check, At, Labels
<1>14. CASE AppendHost(th)
  BY <1>1, <1>14 DEF AppendHost, At
<1>15. CASE ArpUp(th)
  BY <1>1, <1>15 DEF ArpUp, Probing, At
<1>16. CASE ArpSilent(th)
  BY <1>1, <1>16 DEF ArpSilent, Probing, At
<1>17. CASE NdpUp(th)
  BY <1>1, <1>3, <1>17 DEF NdpUp, Probing, At, Labels
<1>18. CASE NdpSilent(th)
  BY <1>1, <1>3, <1>18 DEF NdpSilent, Probing, At, Labels
<1>19. CASE NdpSkips(th)
  BY <1>1, <1>19 DEF NdpSkips, Probing, At
<1>20. thread \in [Threads -> Local]
  BY DEF TypeInv, TypeOK, Local
<1>21. CASE IpProbe(th)
  <2>1. PICK v \in Verdicts : thread' = [thread EXCEPT ![th].pc = "read", ![th].verdict = v]
    BY <1>21 DEF IpProbe
  <2>2. thread'[th] = [thread[th] EXCEPT !.pc = "read", !.verdict = v]
    BY <1>20, <2>1
  <2>3. thread'[th] \in Local /\ thread'[th].pc = "read" /\ thread'[th].job = thread[th].job
    BY <1>2, <2>2 DEF Local, Labels
  <2>4. thread' \in [Threads -> Local] /\ \A x \in Threads \ {th} : thread'[x] = thread[x]
    BY <1>20, <2>1, <2>2, <2>3
  <2>5. M(th) = "ip" /\ thread[th].pc = "probe"
    BY <1>21 DEF IpProbe, Probing, At
  <2> QED
    BY <1>21, <2>3, <2>4, <2>5 DEF IpProbe, Moves, Place
<1>22. CASE ReadCount(th)
  <2> DEFINE n == tally[T(th)][thread[th].verdict]
  <2>1. thread[th].pc = "read" /\ thread' = [thread EXCEPT ![th].pc = "write", ![th].seen = n]
    BY <1>22 DEF ReadCount
  <2>2. n \in Nat
    <3>1. T(th) \in Targets
      BY <2>1, BusyThread
    <3> QED
      BY <1>2, <3>1 DEF TypeInv, TypeOK, Local
  <2> HIDE DEF n
  <2>3. thread'[th] = [thread[th] EXCEPT !.pc = "write", !.seen = n]
    BY <1>20, <2>1
  <2>4. thread'[th] \in Local /\ thread'[th].pc = "write" /\ thread'[th].job = thread[th].job
        /\ thread'[th].verdict = thread[th].verdict
    BY <1>2, <2>2, <2>3 DEF Local, Labels
  <2>5. thread' \in [Threads -> Local] /\ \A x \in Threads \ {th} : thread'[x] = thread[x]
    BY <1>20, <2>1, <2>3, <2>4
  <2>6. Place(M(th), thread'[th])
    BY <1>2, <2>1, <2>4 DEF Place
  <2> QED
    BY <1>22, <2>1, <2>4, <2>5, <2>6 DEF ReadCount, Moves
<1>23. CASE WriteCount(th)
  <2>1. thread[th].pc = "write"
    BY <1>23 DEF WriteCount
  <2>2. CASE AttemptsLeft(th)
    <3>1. thread' = [thread EXCEPT ![th].pc = "probe", ![th].attempt = @ + 1,
                                   ![th].verdict = "up", ![th].seen = 0]
      BY <1>23, <2>2 DEF WriteCount
    <3>2. thread'[th] = [thread[th] EXCEPT !.pc = "probe", !.attempt = @ + 1,
                                           !.verdict = "up", !.seen = 0]
      BY <1>20, <3>1
    <3>3. thread[th].attempt + 1 \in 0..1
      BY <1>2, <2>2 DEF AttemptsLeft, Local
    <3>4. thread'[th] \in Local /\ thread'[th].pc = "probe" /\ thread'[th].job = thread[th].job
          /\ thread'[th].verdict = "up"
      <4> DEFINE n == thread[th].attempt + 1
      <4>1. n \in 0..1
        BY <3>3
      <4>2. thread'[th] = [thread[th] EXCEPT !.pc = "probe", !.attempt = n,
                                             !.verdict = "up", !.seen = 0]
        BY <3>2
      <4> HIDE DEF n
      <4>3. thread'[th] = [job |-> thread[th].job, pc |-> "probe", attempt |-> n,
                           verdict |-> "up", seen |-> 0]
        BY <1>2, <4>2 DEF Local
      <4>4. thread[th].job \in 0..MostJobs
        BY <1>2 DEF Local
      <4> QED
        BY <4>1, <4>3, <4>4 DEF Local, Labels, Verdicts
    <3>5. thread' \in [Threads -> Local] /\ \A x \in Threads \ {th} : thread'[x] = thread[x]
      BY <1>20, <3>1, <3>2, <3>4
    <3>6. Place(M(th), thread'[th])
      BY <3>4 DEF Place
    <3> QED
      BY <1>23, <2>1, <3>4, <3>5, <3>6 DEF WriteCount, Moves
  <2>3. CASE ~AttemptsLeft(th)
    BY <1>1, <1>3, <1>23, <2>1, <2>3 DEF WriteCount, Labels
  <2> QED
    BY <2>2, <2>3
<1> QED
  BY <1>4, <1>5, <1>6, <1>7, <1>8, <1>9, <1>10, <1>11, <1>12, <1>13, <1>14, <1>15, <1>16,
     <1>17, <1>18, <1>19, <1>21, <1>22, <1>23 DEF Ordinary

LEMMA OrdinaryLists ==
  ASSUME TypeInv, NEW th \in Threads, Ordinary(th)
  PROVE  /\ targetss' = targetss \/ targetss' = Append(targetss, T(th))
         /\ tally' \in [Targets -> [Verdicts -> Nat]]
         /\ answered' = answered \/ answered' = answered \cup {T(th)}
         /\ announced' = announced \/ announced' = announced \cup {T(th)}
         /\ T(th) \in Targets
<1>1. thread[th].pc \notin {"idle", "nested"} /\ T(th) \in Targets /\ thread[th] \in Local
  BY OrdinaryMoves, BusyThread
<1>2. tally \in [Targets -> [Verdicts -> Nat]] /\ "up" \in Verdicts
  BY DEF TypeInv, TypeOK, Verdicts
<1> USE DEF said, lists, List, ListIfAbsent, Answer, Announce
<1>3. ASSUME RecordHostUp(T(th))
      PROVE  (targetss' = targetss \/ targetss' = Append(targetss, T(th)))
             /\ tally' \in [Targets -> [Verdicts -> Nat]]
  <2>1. tally[T(th)]["up"] + 1 \in Nat
    BY <1>1, <1>2
  <2> QED
    BY <1>1, <1>2, <1>3, <2>1 DEF RecordHostUp, Count
<1>4. ASSUME WriteCount(th)
      PROVE  tally' \in [Targets -> [Verdicts -> Nat]]
  <2>1. thread[th].seen + 1 \in Nat /\ thread[th].verdict \in Verdicts
    BY <1>1 DEF Local
  <2> QED
    BY <1>1, <1>2, <1>4, <2>1 DEF WriteCount, Count
<1>5. CASE LoopbackUp(th)
  BY <1>1, <1>2, <1>5 DEF LoopbackUp
<1>6. CASE TcpUp(th)
  BY <1>1, <1>3, <1>6 DEF TcpUp
<1>7. CASE TcpDown(th)
  BY <1>1, <1>2, <1>7 DEF TcpDown
<1>8. CASE PingUp(th)
  BY <1>1, <1>3, <1>8 DEF PingUp
<1>9. CASE PingSilent(th)
  BY <1>1, <1>2, <1>9 DEF PingSilent
<1>10. CASE IcmpUp(th)
  BY <1>1, <1>2, <1>10 DEF IcmpUp
<1>11. CASE IcmpSilent(th)
  BY <1>1, <1>2, <1>11 DEF IcmpSilent
<1>12. CASE AckUp(th)
  BY <1>1, <1>2, <1>12 DEF AckUp
<1>13. CASE AckSilent(th)
  BY <1>1, <1>2, <1>13 DEF AckSilent
<1>14. CASE Check(th)
  BY <1>1, <1>2, <1>14 DEF Check
<1>15. CASE AppendHost(th)
  BY <1>1, <1>2, <1>15 DEF AppendHost
<1>16. CASE ArpUp(th)
  BY <1>1, <1>2, <1>16 DEF ArpUp
<1>17. CASE ArpSilent(th)
  BY <1>1, <1>2, <1>17 DEF ArpSilent
<1>18. CASE NdpUp(th)
  BY <1>1, <1>2, <1>18 DEF NdpUp
<1>19. CASE NdpSilent(th)
  BY <1>1, <1>2, <1>19 DEF NdpSilent
<1>20. CASE NdpSkips(th)
  BY <1>1, <1>2, <1>20 DEF NdpSkips
<1>21. CASE IpProbe(th)
  BY <1>1, <1>2, <1>21 DEF IpProbe
<1>22. CASE ReadCount(th)
  BY <1>1, <1>2, <1>22 DEF ReadCount
<1>23. CASE WriteCount(th)
  BY <1>1, <1>4, <1>23 DEF WriteCount
<1> QED
  BY <1>5, <1>6, <1>7, <1>8, <1>9, <1>10, <1>11, <1>12, <1>13, <1>14, <1>15, <1>16, <1>17,
     <1>18, <1>19, <1>20, <1>21, <1>22, <1>23 DEF Ordinary

-----------------------------------------------------------------------------
(* Type correctness *)

\* A busy thread moves, and if it was waiting for its nested pool, that is idle.
LEMMA MovesKeep ==
  ASSUME TypeInv, NEW th \in Threads, thread[th].pc # "idle", Moves(th),
         thread[th].pc = "nested" => \A x \in Workers(th[2]) : thread[x].pc = "idle",
         UNCHANGED <<scan, step, taken, judged, phase>>,
         targetss' \in Seq(Targets), tally' \in [Targets -> [Verdicts -> Nat]],
         (answered \cup announced \cup shown_down)' \subseteq Targets
  PROVE  TypeInv'
<1>1. thread \in [Threads -> Local] /\ thread' \in [Threads -> Local]
  BY DEF TypeInv, TypeOK, Local, Moves
<1>2. thread[th].job # 0 /\ thread[th].job <= taken[th[1]]
  BY DEF TypeInv, TypeOK
<1>3. \A x \in Threads : /\ thread'[x].pc = "idle" <=> thread'[x].job = 0
                         /\ thread'[x].job <= taken[x[1]]
  <2> TAKE x \in Threads
  <2>1. CASE x # th
    BY <2>1 DEF TypeInv, TypeOK, Moves
  <2>2. CASE x = th
    <3>1. 0 <= taken[th[1]]
      <4>1. th[1] \in Pools
        BY Places
      <4> QED
        BY <4>1 DEF TypeInv, TypeOK
    <3> QED
      BY <1>2, <2>2, <3>1 DEF Moves
  <2> QED
    BY <2>1, <2>2
<1>4. TypeOK'
  <2>1. MostJobs' = MostJobs
    BY SameScan
  <2> QED
    BY <1>1, <1>3, <2>1 DEF TypeInv, TypeOK, Local
<1>5. \A x \in Threads : Place(M(x), thread'[x])
  BY DEF TypeInv, Control, Moves
<1>6. \A x \in Threads : Place(M(x), thread[x])'
  <2> TAKE x \in Threads
  <2>1. M(x)' = M(x)
    BY SameScan
  <2> QED
    BY <1>5, <2>1 DEF Place
<1>7. ASSUME NEW x \in Threads, thread'[x].pc # "idle"
      PROVE  x[2] <= scan.max_threads /\ (x[1] # 0 => thread'[<<0, x[1]>>].pc = "nested")
  <2>1. thread[x].pc # "idle"
    BY <1>7 DEF Moves
  <2>2. x[2] <= scan.max_threads /\ (x[1] # 0 => thread[<<0, x[1]>>].pc = "nested")
    BY <2>1 DEF TypeInv, Control, Owner
  <2>3. ASSUME x[1] # 0
        PROVE  thread'[<<0, x[1]>>].pc = "nested"
    <3>1. <<0, x[1]>> \in Threads
      BY <2>3, Places
    <3>2. CASE <<0, x[1]>> # th
      BY <2>2, <2>3, <3>1, <3>2 DEF Moves
    <3>3. CASE <<0, x[1]>> = th
      <4>1. th[2] = x[1] /\ thread[th].pc = "nested"
        BY <2>2, <2>3, <3>3
      <4>2. x \in Workers(th[2])
        BY <4>1 DEF Workers
      <4> QED
        BY <2>1, <4>1, <4>2
    <3> QED
      BY <3>2, <3>3
  <2> QED
    BY <2>2, <2>3
<1>8. \A p \in Pools : (taken[p] <= Len(Jobs(MethodOf(p))))'
  BY SameScan DEF TypeInv, Control, MethodOf, Jobs
<1>9. ~Over /\ ~Over'
  BY DEF TypeInv, Control, Over
<1> QED
  BY <1>4, <1>6, <1>7, <1>8, <1>9 DEF TypeInv, Control, Owner

LEMMA OrdinaryType ==
  ASSUME TypeInv, NEW th \in Threads, Ordinary(th)
  PROVE  TypeInv'
<1>1. /\ Moves(th) /\ thread'[th].pc # "nested"
      /\ thread[th].pc \notin {"idle", "nested"}
      /\ UNCHANGED <<scan, step, taken, judged, phase, shown_down>>
  BY OrdinaryMoves
<1>2. targetss' \in Seq(Targets)
  <2>1. targetss \in Seq(Targets) /\ T(th) \in Targets
    BY OrdinaryLists DEF TypeInv, TypeOK
  <2>2. Append(targetss, T(th)) \in Seq(Targets)
    BY <2>1
  <2> QED
    BY <2>1, <2>2, OrdinaryLists
<1>3. (answered \cup announced \cup shown_down)' \subseteq Targets
  BY <1>1, OrdinaryLists DEF TypeInv, TypeOK
<1> QED
  BY <1>1, <1>2, <1>3, OrdinaryLists, MovesKeep

\* A thread of a pool that is open takes the next job.
LEMMA TakeType ==
  ASSUME TypeInv, NEW th \in Threads, Take(th)
  PROVE  TypeInv'
<1> DEFINE p == th[1]
           r == [Idle EXCEPT !.job = taken[p] + 1, !.pc = "probe"]
<1>1. /\ p \in Pools /\ thread[th].pc = "idle" /\ taken[p] < Len(Jobs(MethodOf(p)))
      /\ th[2] <= scan.max_threads /\ Open(p)
      /\ taken' = [taken EXCEPT ![p] = @ + 1]
      /\ thread' = [thread EXCEPT ![th] = r]
      /\ UNCHANGED <<scan, step, lists, judged, phase, said>>
  BY Places DEF Take
<1>2. /\ thread \in [Threads -> Local] /\ taken \in [Pools -> 0..MostJobs]
      /\ Len(Jobs(MethodOf(p))) \in 0..MostJobs /\ MostJobs \in Nat
  <2>1. scan \in Discoveries
    BY DEF TypeInv, TypeOK
  <2>2. MostJobs \in Nat
    BY <2>1, ScanFields DEF MostJobs
  <2> QED
    BY <2>1, <2>2, JobsType DEF TypeInv, TypeOK, Local
<1>3. taken[p] + 1 \in 1..MostJobs /\ taken[p] + 1 <= Len(Jobs(MethodOf(p)))
  BY <1>1, <1>2
<1>4. r \in Local /\ r.job = taken[p] + 1 /\ r.pc = "probe" /\ r.verdict = "up"
  <2> DEFINE n == taken[p] + 1
  <2>1. n \in 0..MostJobs
    BY <1>2, <1>3
  <2>2. r = [[Idle EXCEPT !.job = n] EXCEPT !.pc = "probe"]
    OBVIOUS
  <2> HIDE DEF n, r
  <2>3. r = [job |-> n, pc |-> "probe", attempt |-> 0, verdict |-> "up", seen |-> 0]
    BY <2>2 DEF Idle
  <2>4. r \in Local
    BY <2>1, <2>3 DEF Local, Labels, Verdicts
  <2> QED
    BY <2>3, <2>4 DEF n
<1> HIDE DEF r
<1>5. /\ thread' \in [Threads -> Local] /\ thread'[th] = r
      /\ \A x \in Threads \ {th} : thread'[x] = thread[x]
  BY <1>1, <1>2, <1>4
<1>6. /\ taken' \in [Pools -> 0..MostJobs] /\ taken'[p] = taken[p] + 1
      /\ \A q \in Pools \ {p} : taken'[q] = taken[q]
  <2>1. \A q \in Pools : taken'[q] = IF q = p THEN taken[p] + 1 ELSE taken[q]
    BY <1>1, <1>2
  <2>2. taken[p] + 1 \in 0..MostJobs
    BY <1>3
  <2>3. taken' \in [Pools -> 0..MostJobs]
    BY <1>1, <1>2, <2>2
  <2> QED
    BY <1>1, <2>1, <2>3
<1>7. \A x \in Threads : /\ thread'[x].pc = "idle" <=> thread'[x].job = 0
                         /\ thread'[x].job <= taken'[x[1]]
  <2> TAKE x \in Threads
  <2>1. x[1] \in Pools
    BY Places
  <2>2. CASE x # th
    <3>1. /\ thread[x].pc = "idle" <=> thread[x].job = 0
          /\ thread[x].job <= taken[x[1]] /\ thread[x].job \in Int /\ taken[x[1]] \in Int
      BY <1>2, <2>1 DEF TypeInv, TypeOK, Local
    <3>2. taken'[x[1]] \in {taken[x[1]], taken[x[1]] + 1}
      BY <1>6, <2>1
    <3> QED
      BY <1>5, <2>2, <3>1, <3>2
  <2>3. CASE x = th
    BY <1>3, <1>4, <1>5, <1>6, <2>3
  <2> QED
    BY <2>2, <2>3
<1>8. TypeOK'
  <2>1. MostJobs' = MostJobs
    BY <1>1, SameScan
  <2> QED
    BY <1>1, <1>5, <1>6, <1>7, <2>1 DEF TypeInv, TypeOK, Local, lists, said
<1>9. \A q \in Pools : (taken[q] <= Len(Jobs(MethodOf(q))))'
  <2>1. \A q \in Pools : taken'[q] <= Len(Jobs(MethodOf(q)))
    BY <1>3, <1>6 DEF TypeInv, Control
  <2> QED
    BY <1>1, <2>1 DEF MethodOf, Jobs
<1>10. \A x \in Threads : Place(M(x), thread'[x])
  BY <1>4, <1>5 DEF TypeInv, Control, Place
<1>11. \A x \in Threads : Place(M(x), thread[x])'
  <2> TAKE x \in Threads
  <2>1. M(x)' = M(x)
    BY <1>1, SameScan
  <2> QED
    BY <1>1, <1>10, <2>1 DEF Place
<1>12. \A x \in Threads : thread'[x].pc # "idle" =>
          x[2] <= scan.max_threads /\ (x[1] # 0 => thread'[<<0, x[1]>>].pc = "nested")
  <2> TAKE x \in Threads
  <2>1. HAVE thread'[x].pc # "idle"
  <2>2. x[2] <= scan.max_threads /\ (x[1] # 0 => thread[<<0, x[1]>>].pc = "nested")
    BY <1>1, <1>5, <2>1 DEF TypeInv, Control, Owner, Open
  <2>3. x[1] # 0 => <<0, x[1]>> \in Threads
    BY Places
  <2> QED
    BY <1>1, <1>5, <2>2, <2>3
<1>13. ~Over'
  BY <1>1 DEF Open, Over
<1> QED
  BY <1>1, <1>8, <1>9, <1>11, <1>12, <1>13 DEF TypeInv, Control, Owner

\* An exception in a pool ends its call; without a pool it ends them all.
LEMMA FailType ==
  ASSUME TypeInv, NEW th \in Threads, thread[th].pc \notin {"idle", "nested"}, Fail(th),
         UNCHANGED <<scan, step, lists, taken, judged, said>>
  PROVE  TypeInv'
<1> USE DEF lists, said
<1>1. CASE Inline
  <2>1. MostJobs \in Nat /\ MostJobs' = MostJobs
    BY ScanFields, SameScan DEF MostJobs, TypeInv, TypeOK
  <2>2. Idle \in Local /\ Idle.pc = "idle" /\ Idle.job = 0
    BY <2>1 DEF Idle, Local, Labels, Verdicts
  <2>3. thread' = [x \in Threads |-> Idle] /\ phase' = "cut_short"
    BY <1>1 DEF Fail
  <2>4. thread' \in [Threads -> Local] /\ \A x \in Threads : thread'[x] = Idle
    BY <2>2, <2>3
  <2>5. \A x \in Threads : 0 <= taken[x[1]]
    <3> TAKE x \in Threads
    <3>1. x[1] \in Pools
      BY Places
    <3> QED
      BY <2>1, <3>1 DEF TypeInv, TypeOK
  <2>6. TypeOK'
    BY <2>1, <2>2, <2>3, <2>4, <2>5 DEF TypeInv, TypeOK, Local
  <2>7. \A p \in Pools : (taken[p] <= Len(Jobs(MethodOf(p))))'
    BY DEF TypeInv, Control, MethodOf, Jobs
  <2>8. \A x \in Threads : Place(M(x), thread[x])'
    BY <2>2, <2>4 DEF Place
  <2> QED
    BY <2>2, <2>4, <2>6, <2>7, <2>8 DEF TypeInv, Control, Owner
<1>2. CASE ~Inline
  BY <1>2, ReturnMoves, MovesKeep DEF Fail, TypeInv, TypeOK
<1> QED
  BY <1>1, <1>2

LEMMA RecursesMoves ==
  ASSUME TypeInv, NEW th \in Threads, IcmpRecurses(th)
  PROVE  /\ Moves(th) /\ thread'[th].pc = "nested" /\ thread[th].pc = "probe"
         /\ th[1] = 0 /\ M(th) = "icmp" /\ scan.recursively
         /\ \A x \in Workers(th[2]) : thread[x].pc = "idle"
<1>1. /\ M(th) = "icmp" /\ scan.recursively /\ thread[th].pc = "probe" /\ Goto(th, "nested")
  BY DEF IcmpRecurses, Probing, At
<1>2. th[1] = 0
  BY <1>1 DEF M, MethodOf
<1>3. Place(M(th), [thread[th] EXCEPT !.pc = "nested"])
  <2>1. thread[th] \in Local /\ Place(M(th), thread[th])
    BY DEF TypeInv, TypeOK, Local, Control
  <2> QED
    BY <1>1, <2>1 DEF Place, Local
<1>4. Moves(th) /\ thread'[th].pc = "nested"
  BY <1>1, <1>3, GotoMoves DEF Labels
<1>5. \A x \in Workers(th[2]) : thread[x].pc = "idle"
  <2>1. SUFFICES ASSUME NEW x \in Workers(th[2]), thread[x].pc # "idle" PROVE FALSE
    OBVIOUS
  <2>2. x \in Threads /\ x[1] = th[2] /\ th = <<0, th[2]>> /\ th[2] # 0
    BY <1>2, Places DEF Workers
  <2> QED
    BY <1>1, <2>1, <2>2 DEF TypeInv, Control, Owner
<1> QED
  BY <1>1, <1>2, <1>4, <1>5

\* The nested pool starts empty.
LEMMA RecursesType ==
  ASSUME TypeInv, NEW th \in Threads, IcmpRecurses(th)
  PROVE  TypeInv'
<1>1. /\ taken' = [taken EXCEPT ![th[2]] = 0]
      /\ UNCHANGED <<scan, step, lists, judged, phase, said>>
  BY DEF IcmpRecurses
<1>2. /\ Moves(th) /\ thread'[th].pc = "nested" /\ thread[th].pc = "probe" /\ th[1] = 0
      /\ \A x \in Workers(th[2]) : thread[x].pc = "idle"
  BY RecursesMoves
<1>3. /\ thread \in [Threads -> Local] /\ thread' \in [Threads -> Local]
      /\ taken \in [Pools -> 0..MostJobs] /\ MostJobs \in Nat /\ MostJobs' = MostJobs
  BY <1>1, <1>2, ScanFields, SameScan DEF TypeInv, TypeOK, Local, Moves, MostJobs
<1>4. th[2] \in Pools /\ th[2] # 0
  BY Places
<1>5. /\ taken' \in [Pools -> 0..MostJobs] /\ taken'[th[2]] = 0
      /\ \A q \in Pools \ {th[2]} : taken'[q] = taken[q]
  BY <1>1, <1>3, <1>4
<1>6. \A x \in Threads : /\ thread'[x].pc = "idle" <=> thread'[x].job = 0
                         /\ thread'[x].job <= taken'[x[1]]
  <2> TAKE x \in Threads
  <2>1. /\ thread[x].pc = "idle" <=> thread[x].job = 0
        /\ thread[x].job <= taken[x[1]] /\ x[1] \in Pools
    BY Places DEF TypeInv, TypeOK
  <2>2. CASE x = th
    <3>1. thread'[x].job = thread[x].job /\ taken'[x[1]] = taken[x[1]]
      BY <1>2, <1>4, <1>5, <2>1, <2>2 DEF Moves
    <3> QED
      BY <1>2, <2>1, <2>2, <3>1
  <2>3. CASE x # th /\ x[1] # th[2]
    BY <1>2, <1>5, <2>1, <2>3 DEF Moves
  <2>4. CASE x # th /\ x[1] = th[2]
    <3>1. x \in Workers(th[2])
      BY <2>4 DEF Workers
    <3>2. thread[x].pc = "idle" /\ thread'[x] = thread[x] /\ taken'[x[1]] = 0
      BY <1>2, <1>5, <2>4, <3>1 DEF Moves
    <3> QED
      BY <2>1, <3>2
  <2> QED
    BY <2>2, <2>3, <2>4
<1>7. TypeOK'
  BY <1>1, <1>3, <1>5, <1>6 DEF TypeInv, TypeOK, Local, lists, said
<1>8. \A q \in Pools : (taken[q] <= Len(Jobs(MethodOf(q))))'
  <2>1. \A q \in Pools : taken'[q] <= Len(Jobs(MethodOf(q)))
    <3> TAKE q \in Pools
    <3>1. taken[q] <= Len(Jobs(MethodOf(q))) /\ 0 <= taken[q] /\ taken[q] \in Int
          /\ Len(Jobs(MethodOf(q))) \in Nat
      BY <1>3, JobsType DEF TypeInv, TypeOK, Control
    <3>2. taken'[q] \in {0, taken[q]}
      BY <1>5
    <3> QED
      BY <3>1, <3>2
  <2> QED
    BY <1>1, <2>1 DEF MethodOf, Jobs
<1>9. \A x \in Threads : Place(M(x), thread'[x])
  BY <1>2 DEF TypeInv, Control, Moves
<1>10. \A x \in Threads : Place(M(x), thread[x])'
  <2> TAKE x \in Threads
  <2>1. M(x)' = M(x)
    BY <1>1, SameScan
  <2> QED
    BY <1>1, <1>9, <2>1 DEF Place
<1>11. \A x \in Threads : thread'[x].pc # "idle" =>
          x[2] <= scan.max_threads /\ (x[1] # 0 => thread'[<<0, x[1]>>].pc = "nested")
  <2> TAKE x \in Threads
  <2>1. HAVE thread'[x].pc # "idle"
  <2>2. thread[x].pc # "idle"
    BY <1>2, <2>1 DEF Moves
  <2>3. x[2] <= scan.max_threads /\ (x[1] # 0 => thread[<<0, x[1]>>].pc = "nested")
    BY <2>2 DEF TypeInv, Control, Owner
  <2>4. x[1] # 0 => <<0, x[1]>> \in Threads
    BY Places
  <2> QED
    BY <1>2, <2>3, <2>4 DEF Moves
<1>12. ~Over'
  BY <1>1, <1>2 DEF TypeInv, Control, Over
<1> QED
  BY <1>1, <1>7, <1>8, <1>10, <1>11, <1>12 DEF TypeInv, Control, Owner

LEMMA FinishNestedType ==
  ASSUME TypeInv, NEW th \in Threads, FinishNested(th)
  PROVE  TypeInv'
<1>1. /\ thread[th].pc = "nested" /\ Return(th) /\ ShowDown
      /\ \A x \in Workers(th[2]) : thread[x].pc = "idle"
      /\ UNCHANGED <<scan, step, lists, taken, judged, phase, answered, announced>>
  BY DEF FinishNested, Finished, At
<1>2. (answered \cup announced \cup shown_down)' \subseteq Targets
  BY <1>1 DEF TypeInv, TypeOK, ShowDown
<1> QED
  BY <1>1, <1>2, ReturnMoves, MovesKeep DEF TypeInv, TypeOK, lists

\* When the pool of the method is idle, so are the pools its threads started.
LEMMA AllIdle ==
  ASSUME TypeInv, Finished(0)
  PROVE  \A th \in Threads : thread[th].pc = "idle"
<1>1. \A th \in Threads : th[1] = 0 => thread[th].pc = "idle"
  BY DEF Finished, Workers
<1>2. SUFFICES ASSUME NEW th \in Threads, th[1] # 0, thread[th].pc # "idle"
               PROVE  FALSE
  BY <1>1
<1>3. thread[<<0, th[1]>>].pc = "nested" /\ <<0, th[1]>> \in Threads /\ <<0, th[1]>>[1] = 0
  BY <1>2, Places DEF TypeInv, Control, Owner
<1> QED
  BY <1>1, <1>3

LEMMA JudgeType ==
  ASSUME TypeInv, Judge
  PROVE  TypeInv'
<1> DEFINE t == scan.targets[judged + 1]
<1>1. /\ judged < Len(scan.targets) /\ judged' = judged + 1
      /\ UNCHANGED <<scan, step, tally, taken, thread, phase, answered, shown_down>>
      /\ targetss' = targetss \/ targetss' = Append(targetss, t)
      /\ announced' = announced \/ announced' = announced \cup {t}
  BY DEF Judge, ListIfAbsent, List, Announce
<1>2. t \in Targets /\ judged' \in 0..Len(scan.targets)
  <2>1. scan.targets \in Seq(Targets) /\ judged \in 0..Len(scan.targets)
    BY ScanFields DEF TypeInv, TypeOK
  <2> QED
    BY <1>1, <2>1
<1> HIDE DEF t
<1>3. targetss' \in Seq(Targets) /\ announced' \subseteq Targets
  <2>1. targetss \in Seq(Targets) /\ announced \subseteq Targets
    BY DEF TypeInv, TypeOK
  <2> QED
    BY <1>1, <1>2, <2>1
<1>4. MostJobs' = MostJobs
  BY <1>1, SameScan
<1>5. TypeOK'
  BY <1>1, <1>2, <1>3, <1>4 DEF TypeInv, TypeOK
<1>6. Control'
  BY <1>1 DEF TypeInv, Control, Place, M, MethodOf, Jobs, Owner, Over
<1> QED
  BY <1>5, <1>6 DEF TypeInv

LEMMA FinishType ==
  ASSUME TypeInv, FinishMethod
  PROVE  TypeInv'
<1>1. \A th \in Threads : thread[th].pc = "idle" /\ thread[th].job = 0
  BY AllIdle DEF FinishMethod, TypeInv, TypeOK
<1>2. /\ taken' = [p \in Pools |-> 0] /\ judged' = 0
      /\ UNCHANGED <<scan, lists, thread, answered, announced>>
      /\ shown_down' = shown_down \/ ShowDown
  BY DEF FinishMethod
<1>3. step' \in DOMAIN scan.methods /\ phase' \in {"discover", "done", "cut_short"}
  <2>1. scan.methods \in Seq(Methods) /\ step \in DOMAIN scan.methods
    BY MethodsType DEF TypeInv, TypeOK
  <2> QED
    BY <2>1 DEF FinishMethod, TypeInv, TypeOK
<1>4. MostJobs' = MostJobs /\ MostJobs \in Nat /\ Len(scan.targets) \in Nat
  BY <1>2, ScanFields DEF MostJobs, TypeInv, TypeOK
<1>5. shown_down' \subseteq Targets
  BY <1>2 DEF ShowDown, TypeInv, TypeOK
<1>6. \A th \in Threads : taken'[th[1]] = 0
  BY <1>2, Places
<1>7. TypeOK'
  <2>1. taken' \in [Pools -> 0..MostJobs]
    BY <1>2, <1>4
  <2>2. \A th \in Threads : thread[th].job <= taken'[th[1]]
    BY <1>1, <1>6
  <2> QED
    <3>1. /\ UNCHANGED <<scan, targetss, tally, thread, answered, announced>> /\ judged' = 0
          /\ MostJobs' = MostJobs
      BY <1>2, <1>4 DEF lists
    <3>2. (answered \cup announced \cup shown_down)' \subseteq Targets
      BY <1>5, <3>1 DEF TypeInv, TypeOK
    <3>3. 0 \in 0..Len(scan.targets)
      BY <1>4
    <3> QED
      BY <1>3, <2>1, <2>2, <3>1, <3>2, <3>3 DEF TypeInv, TypeOK
<1>8. \A p \in Pools : (taken[p] <= Len(Jobs(MethodOf(p))))'
  <2> TAKE p \in Pools
  <2>1. scan' \in Discoveries
    BY <1>7 DEF TypeOK
  <2>2. (0 <= Len(Jobs(MethodOf(p))))'
    <3>1. scan \in Discoveries
      BY DEF TypeInv, TypeOK
    <3>2. \A m : Len(Jobs(m)) \in Nat
      BY <3>1, JobsType
    <3>3. \A m : Jobs(m)' = Jobs(m)
      BY <1>2 DEF Jobs
    <3>4. Jobs(MethodOf(p))' = Jobs(MethodOf(p)')
      BY <1>2 DEF Jobs
    <3>5. Len(Jobs(MethodOf(p)')) \in Nat
      BY <3>2
    <3> QED
      BY <3>4, <3>5
  <2> QED
    BY <1>2, <2>2
<1>9. \A th \in Threads : Place(M(th), thread[th])'
  BY <1>1, <1>2 DEF Place
<1> QED
  BY <1>1, <1>2, <1>7, <1>8, <1>9 DEF TypeInv, Control, Owner

LEMMA InitType == Init => TypeInv
<1> SUFFICES ASSUME Init PROVE TypeInv
  OBVIOUS
<1>1. scan \in Discoveries
  BY DEF Init
<1>2. MostJobs \in Nat /\ Len(scan.targets) \in Nat /\ step \in DOMAIN scan.methods
  BY <1>1, ScanFields, MethodsType DEF MostJobs, Init
<1>3. \A th \in Threads : thread[th] = Idle /\ taken[th[1]] = 0
  BY Places DEF Init
<1>4. Idle \in Local /\ Idle.pc = "idle" /\ Idle.job = 0
  BY <1>2 DEF Idle, Local, Labels, Verdicts
<1>5. TypeOK
  BY <1>1, <1>2, <1>3, <1>4 DEF Init, TypeOK, Local
<1>6. \A p \in Pools : taken[p] <= Len(Jobs(MethodOf(p)))
  <2> TAKE p \in Pools
  <2>1. Len(Jobs(MethodOf(p))) \in Nat
    BY <1>1, JobsType
  <2> QED
    BY <2>1 DEF Init
<1>7. Control
  BY <1>3, <1>4, <1>6 DEF Init, Control, Place, Over
<1> QED
  BY <1>5, <1>7 DEF TypeInv

LEMMA StepCases ==
  ASSUME NEW th \in Threads, Step(th)
  PROVE  Take(th) \/ Ordinary(th) \/ ProbeRaises(th) \/ AckRaises(th)
         \/ IcmpRecurses(th) \/ FinishNested(th)
  BY DEF Step, Ordinary

LEMMA StepType == TypeInv /\ [Next]_vars => TypeInv'
<1> SUFFICES ASSUME TypeInv, [Next]_vars PROVE TypeInv'
  OBVIOUS
<1>1. ASSUME NEW th \in Threads, Step(th) PROVE TypeInv'
  <2>1. CASE Take(th)
    BY <2>1, TakeType
  <2>2. CASE Ordinary(th)
    BY <2>2, OrdinaryType
  <2>3. CASE ProbeRaises(th)
    BY <2>3, FailType DEF ProbeRaises, Probing, At
  <2>4. CASE AckRaises(th)
    BY <2>4, FailType DEF AckRaises, Probing, At
  <2>5. CASE IcmpRecurses(th)
    BY <2>5, RecursesType
  <2>6. CASE FinishNested(th)
    BY <2>6, FinishNestedType
  <2> QED
    BY <1>1, <2>1, <2>2, <2>3, <2>4, <2>5, <2>6, StepCases
<1>2. CASE UNCHANGED vars
  BY <1>2 DEF vars, lists, said, TypeInv, TypeOK, Control, Place, M, MethodOf, Jobs, MostJobs,
              Owner, Over
<1> QED
  BY <1>1, <1>2, JudgeType, FinishType DEF Next, Main, Terminated

\* Every variable keeps its type, for any number of threads and of targets: no thread
\* takes a job that is not there, also after a step to another method or in a pool that
\* was used before, and IP_Ping probes no protocol more than twice.
THEOREM TypeCorrect == Spec => []TypeOK
<1>1. TypeInv => TypeOK
  BY DEF TypeInv
<1> QED
  BY <1>1, InitType, StepType, PTL DEF Spec

-----------------------------------------------------------------------------
(* Who is listed *)

LEMMA ListedNext ==
  ASSUME TypeOK
  PROVE  /\ \A u \in Targets : targetss' = Append(targetss, u) =>
              \A t \in Targets : Listed(t)' <=> Listed(t) \/ t = u
         /\ targetss' = targetss => \A t \in Targets : Listed(t)' <=> Listed(t)
         /\ \A i \in DOMAIN targetss : targetss[i] \in Targets /\ Listed(targetss[i])
<1>1. targetss \in Seq(Targets)
  BY DEF TypeOK
<1>2. ASSUME NEW u \in Targets, targetss' = Append(targetss, u), NEW t \in Targets
      PROVE  Listed(t)' <=> Listed(t) \/ t = u
  <2>1. /\ DOMAIN targetss' = 1 .. Len(targetss) + 1 /\ DOMAIN targetss = 1 .. Len(targetss)
        /\ targetss'[Len(targetss) + 1] = u /\ Len(targetss) \in Nat
        /\ \A i \in 1 .. Len(targetss) : targetss'[i] = targetss[i]
    BY <1>1, <1>2
  <2>2. Listed(t)' <=> \E i \in 1 .. Len(targetss) + 1 : targetss'[i] = t
    BY <2>1 DEF Listed
  <2> QED
    BY <2>1, <2>2 DEF Listed
<1> QED
  BY <1>1, <1>2 DEF Listed

\* OnlyHostsFound says of a host that is listed that it is
Found(t) == t \in answered \cup Loopback \/ Single \/ scan.recursively

\* What a call in progress knows of its target.
Knows(th, r) ==
  /\ r.pc \in {"read", "write", "check"} /\ r.verdict = "up" => T(th) \in answered
  /\ r.pc = "append" => T(th) \in answered \/ Single

FoundInv ==
  /\ \A t \in Targets : Listed(t) => Found(t)
  /\ \A t \in Targets : tally[t]["up"] > 0 => t \in answered \/ scan.recursively
  /\ \A th \in Threads : Knows(th, thread[th])

\* A host is listed or counted for a reason, and a thread goes on with one.
LEMMA OrdinaryFound ==
  ASSUME TypeInv, FoundInv, NEW th \in Threads, Ordinary(th)
  PROVE  /\ \/ targetss' = targetss
            \/ /\ targetss' = Append(targetss, T(th))
               /\ T(th) \in answered' \cup Loopback \/ Single \/ scan.recursively
         /\ \A t \in Targets : tally'[t]["up"] > 0 =>
              \/ tally[t]["up"] > 0
              \/ t = T(th) /\ (t \in answered' \/ scan.recursively)
         /\ thread'[th].pc \in {"read", "write", "check"} /\ thread'[th].verdict = "up" =>
              T(th) \in answered'
         /\ thread'[th].pc = "append" => T(th) \in answered' \/ Single
<1>1. /\ thread[th] \in Local /\ T(th) \in Targets /\ Place(M(th), thread[th])
      /\ thread \in [Threads -> Local] /\ thread[th].pc \notin {"idle", "nested"}
      /\ Idle.pc = "idle"
  BY OrdinaryMoves, BusyThread DEF TypeInv, TypeOK, Control, Local, Idle
<1>2. tally \in [Targets -> [Verdicts -> Nat]] /\ "up" \in Verdicts
  BY DEF TypeInv, TypeOK, Verdicts
<1>3. Knows(th, thread[th])
  BY DEF FoundInv
<1>4. ASSUME Return(th) PROVE thread'[th].pc = "idle"
  BY <1>1, <1>4 DEF Return
<1>5. ASSUME NEW label, Goto(th, label)
      PROVE  thread'[th].pc = label /\ thread'[th].verdict = thread[th].verdict
  BY <1>1, <1>5 DEF Goto, Local
<1>6. ASSUME RecordHostUp(T(th))
      PROVE  /\ targetss' = targetss \/ targetss' = Append(targetss, T(th))
             /\ \A t \in Targets : tally'[t]["up"] > 0 => tally[t]["up"] > 0 \/ t = T(th)
  BY <1>1, <1>2, <1>6 DEF RecordHostUp, ListIfAbsent, List, Count
<1> USE DEF said, lists, List, ListIfAbsent, Answer, Announce
<1>7. CASE LoopbackUp(th)
  BY <1>4, <1>7 DEF LoopbackUp
<1>8. CASE TcpUp(th)
  BY <1>4, <1>6, <1>8 DEF TcpUp
<1>9. CASE TcpDown(th)
  BY <1>4, <1>9 DEF TcpDown
<1>10. CASE PingUp(th)
  BY <1>4, <1>6, <1>10 DEF PingUp
<1>11. CASE PingSilent(th)
  BY <1>4, <1>11 DEF PingSilent
<1>12. CASE IcmpUp(th)
  BY <1>5, <1>12 DEF IcmpUp
<1>13. CASE IcmpSilent(th)
  BY <1>4, <1>13 DEF IcmpSilent
<1>14. CASE AckUp(th)
  BY <1>5, <1>14 DEF AckUp
<1>15. CASE AckSilent(th)
  BY <1>4, <1>5, <1>15 DEF AckSilent
<1>16. CASE Check(th)
  <2>1. thread[th].pc = "check" /\ M(th) = "ack" /\ thread[th].verdict = "up"
    BY <1>1, <1>16 DEF Check, At, Place
  <2> QED
    BY <1>3, <1>4, <1>5, <1>16, <2>1 DEF Check, Knows
<1>17. CASE AppendHost(th)
  BY <1>3, <1>4, <1>17 DEF AppendHost, At, Knows
<1>18. CASE ArpUp(th)
  BY <1>4, <1>18 DEF ArpUp
<1>19. CASE ArpSilent(th)
  BY <1>4, <1>19 DEF ArpSilent
<1>20. CASE NdpUp(th)
  BY <1>4, <1>5, <1>20 DEF NdpUp
<1>21. CASE NdpSilent(th)
  BY <1>4, <1>5, <1>21 DEF NdpSilent
<1>22. CASE NdpSkips(th)
  BY <1>4, <1>22 DEF NdpSkips
<1>23. CASE IpProbe(th)
  <2>1. PICK v \in Verdicts :
          /\ thread' = [thread EXCEPT ![th].pc = "read", ![th].verdict = v]
          /\ IF v = "up" THEN Answer(T(th)) ELSE UNCHANGED answered
    BY <1>23 DEF IpProbe
  <2>2. thread'[th] = [thread[th] EXCEPT !.pc = "read", !.verdict = v]
    BY <1>1, <2>1
  <2>3. thread'[th].pc = "read" /\ thread'[th].verdict = v
    BY <1>1, <2>2 DEF Local
  <2> QED
    BY <1>23, <2>1, <2>3 DEF IpProbe
<1>24. CASE ReadCount(th)
  <2> DEFINE n == tally[T(th)][thread[th].verdict]
  <2>1. thread' = [thread EXCEPT ![th].pc = "write", ![th].seen = n] /\ thread[th].pc = "read"
        /\ UNCHANGED <<targetss, tally, answered>>
    BY <1>24 DEF ReadCount
  <2> HIDE DEF n
  <2>2. thread'[th] = [thread[th] EXCEPT !.pc = "write", !.seen = n]
    BY <1>1, <2>1
  <2>3. thread'[th].pc = "write" /\ thread'[th].verdict = thread[th].verdict
    BY <1>1, <2>2 DEF Local
  <2> QED
    BY <1>3, <2>1, <2>3 DEF Knows
<1>25. CASE WriteCount(th)
  <2>1. /\ thread[th].pc = "write" /\ UNCHANGED <<targetss, answered>>
        /\ tally' = [tally EXCEPT ![T(th)][thread[th].verdict] = thread[th].seen + 1]
    BY <1>25 DEF WriteCount, Count
  <2>2. \A t \in Targets : tally'[t]["up"] > 0 =>
          tally[t]["up"] > 0 \/ (t = T(th) /\ thread[th].verdict = "up")
    <3>1. thread[th].verdict \in Verdicts
      BY <1>1 DEF Local
    <3> QED
      BY <1>1, <1>2, <2>1, <3>1
  <2>3. CASE AttemptsLeft(th)
    <3>1. thread' = [thread EXCEPT ![th].pc = "probe", ![th].attempt = @ + 1,
                                   ![th].verdict = "up", ![th].seen = 0]
      BY <1>25, <2>3 DEF WriteCount
    <3>2. thread'[th] = [thread[th] EXCEPT !.pc = "probe", !.attempt = @ + 1,
                                           !.verdict = "up", !.seen = 0]
      BY <1>1, <3>1
    <3>3. thread'[th].pc = "probe"
      BY <1>1, <3>2 DEF Local
    <3> QED
      BY <1>3, <2>1, <2>2, <3>3 DEF Knows
  <2>4. CASE ~AttemptsLeft(th)
    <3>1. IF M(th) = "ack" THEN Goto(th, "check") ELSE Return(th)
      BY <1>25, <2>4 DEF WriteCount
    <3>2. /\ thread'[th].pc \in {"idle", "check"}
          /\ thread'[th].pc = "check" => M(th) = "ack"
      BY <1>4, <1>5, <3>1
    <3>3. M(th) = "ack" => thread[th].verdict = "up"
      BY <1>1, <2>1 DEF Place
    <3> QED
      BY <1>3, <2>1, <2>2, <3>2, <3>3 DEF Knows
  <2> QED
    BY <2>3, <2>4
<1> QED
  BY <1>7, <1>8, <1>9, <1>10, <1>11, <1>12, <1>13, <1>14, <1>15, <1>16, <1>17, <1>18, <1>19,
     <1>20, <1>21, <1>22, <1>23, <1>24, <1>25 DEF Ordinary

\* The other steps of threads change no list, and leave no call half done.
LEMMA OtherSteps ==
  ASSUME TypeInv, NEW th \in Threads,
         Take(th) \/ ProbeRaises(th) \/ AckRaises(th) \/ IcmpRecurses(th) \/ FinishNested(th)
  PROVE  /\ UNCHANGED <<scan, step, judged, targetss, tally, answered, announced>>
         /\ \A x \in Threads : thread'[x] = thread[x] \/ thread'[x].pc \in {"idle", "probe", "nested"}
<1> USE DEF lists, said
<1>1. thread \in [Threads -> Local] /\ Idle.pc = "idle"
  BY DEF TypeInv, TypeOK, Local, Idle
<1>2. CASE Take(th)
  <2> DEFINE r == [Idle EXCEPT !.job = taken[th[1]] + 1, !.pc = "probe"]
  <2>1. thread' = [thread EXCEPT ![th] = r]
    BY <1>2 DEF Take
  <2>2. r.pc = "probe"
    BY DEF Idle
  <2> HIDE DEF r
  <2>3. \A x \in Threads : thread'[x] = thread[x] \/ thread'[x] = r
    BY <1>1, <2>1
  <2> QED
    BY <1>2, <2>2, <2>3 DEF Take
<1>3. ASSUME Fail(th)
      PROVE  \A x \in Threads : thread'[x] = thread[x] \/ thread'[x].pc = "idle"
  BY <1>1, <1>3 DEF Fail, Return
<1>4. CASE ProbeRaises(th)
  BY <1>3, <1>4 DEF ProbeRaises
<1>5. CASE AckRaises(th)
  BY <1>3, <1>5 DEF AckRaises
<1>6. CASE IcmpRecurses(th)
  BY <1>6, RecursesMoves DEF IcmpRecurses, Moves
<1>7. CASE FinishNested(th)
  BY <1>1, <1>7 DEF FinishNested, Return
<1> QED
  BY <1>2, <1>4, <1>5, <1>6, <1>7

LEMMA FoundStep == TypeInv /\ FoundInv /\ [Next]_vars => FoundInv'
<1> SUFFICES ASSUME TypeInv, FoundInv, [Next]_vars PROVE FoundInv'
  OBVIOUS
<1>1. ASSUME NEW th \in Threads, Ordinary(th)
      PROVE  FoundInv'
  <2>1. UNCHANGED <<scan, step>> /\ T(th) \in Targets /\ answered \subseteq answered'
        /\ thread'[th].pc # "nested" /\ Moves(th)
    BY <1>1, OrdinaryMoves, OrdinaryLists
  <2>2. \A t \in Targets : Found(t) => Found(t)'
    BY <2>1 DEF Found, Single
  <2>3. \A t \in Targets : Listed(t)' => Found(t)'
    <3>1. CASE targetss' = targetss
      BY <2>2, <3>1, ListedNext DEF TypeInv, FoundInv
    <3>2. CASE /\ targetss' = Append(targetss, T(th))
               /\ T(th) \in answered' \cup Loopback \/ Single \/ scan.recursively
      <4>1. \A t \in Targets : Listed(t)' <=> Listed(t) \/ t = T(th)
        BY <2>1, <3>2, ListedNext DEF TypeInv
      <4> QED
        BY <2>1, <2>2, <3>2, <4>1 DEF Found, Single, FoundInv
    <3> QED
      BY <1>1, <3>1, <3>2, OrdinaryFound
  <2>4. \A t \in Targets : (tally[t]["up"] > 0 => t \in answered \/ scan.recursively)'
    BY <1>1, <2>1, OrdinaryFound DEF FoundInv
  <2>5. ASSUME NEW x \in Threads
        PROVE  Knows(x, thread[x])'
    <3>1. CASE x = th
      <4>1. CASE thread'[th].pc = "idle"
        BY <3>1, <4>1 DEF Knows
      <4>2. CASE thread'[th].pc # "idle"
        <5>1. T(th)' = T(th)
          BY <2>1, <4>2, SameTarget DEF Moves
        <5> QED
          BY <1>1, <2>1, <3>1, <5>1, OrdinaryFound DEF Knows, Single
      <4> QED
        BY <4>1, <4>2
    <3>2. CASE x # th
      <4>1. thread'[x] = thread[x]
        BY <2>1, <3>2 DEF Moves
      <4>2. T(x)' = T(x)
        BY <2>1, <4>1, SameTarget
      <4> QED
        BY <2>1, <4>1, <4>2 DEF Knows, Single, FoundInv
    <3> QED
      BY <3>1, <3>2
  <2> QED
    BY <2>3, <2>4, <2>5 DEF FoundInv
<1>2. ASSUME NEW th \in Threads,
             Take(th) \/ ProbeRaises(th) \/ AckRaises(th) \/ IcmpRecurses(th) \/ FinishNested(th)
      PROVE  FoundInv'
  <2>1. /\ UNCHANGED <<scan, step, judged, targetss, tally, answered, announced>>
        /\ \A x \in Threads : thread'[x] = thread[x] \/ thread'[x].pc \in {"idle", "probe", "nested"}
    BY <1>2, OtherSteps
  <2>2. ASSUME NEW x \in Threads PROVE Knows(x, thread[x])'
    <3>1. CASE thread'[x] = thread[x]
      <4>1. T(x)' = T(x)
        BY <2>1, <3>1, SameTarget
      <4> QED
        BY <2>1, <3>1, <4>1 DEF Knows, Single, FoundInv
    <3>2. CASE thread'[x].pc \in {"idle", "probe", "nested"}
      BY <3>2 DEF Knows
    <3> QED
      BY <2>1, <3>1, <3>2
  <2> QED
    BY <2>1, <2>2 DEF FoundInv, Found, Listed, Single
<1>3. ASSUME Judge PROVE FoundInv'
  <2> DEFINE t == scan.targets[judged + 1]
  <2>1. /\ judged < Len(scan.targets)
        /\ IF TakenUp(t) THEN ListIfAbsent(t) ELSE UNCHANGED targetss
        /\ UNCHANGED <<scan, step, tally, thread, answered>>
    BY <1>3 DEF Judge
  <2>2. t \in Targets
    <3>1. scan.targets \in Seq(Targets) /\ judged \in 0..Len(scan.targets)
      BY ScanFields DEF TypeInv, TypeOK
    <3> QED
      BY <2>1, <3>1
  <2> HIDE DEF t
  <2>3. TakenUp(t) => Found(t)
    <3>1. ASSUME Wins(t, "up") PROVE tally[t]["up"] > 0
      <4>1. tally[t]["up"] > tally[t]["down"]
        BY <3>1 DEF Wins, Verdicts
      <4>2. tally[t]["up"] \in Nat /\ tally[t]["down"] \in Nat
        BY <2>2 DEF TypeInv, TypeOK, Verdicts
      <4> QED
        BY <4>1, <4>2
    <3> QED
      BY <2>2, <3>1 DEF TakenUp, Found, FoundInv
  <2>4. \A u \in Targets : Listed(u)' => Found(u)
    BY <2>1, <2>2, <2>3, ListedNext DEF ListIfAbsent, List, FoundInv, TypeInv
  <2> QED
    BY <2>1, <2>4 DEF FoundInv, Found, Single, Knows, T, M, MethodOf, Jobs
<1>4. ASSUME FinishMethod PROVE FoundInv'
  <2>1. UNCHANGED <<scan, targetss, tally, thread, answered>>
        /\ \A th \in Threads : thread[th].pc = "idle"
    BY <1>4, AllIdle DEF FinishMethod, lists
  <2> QED
    BY <2>1 DEF FoundInv, Found, Single, Knows, Listed
<1>5. CASE UNCHANGED vars
  BY <1>5 DEF vars, lists, said, FoundInv, Found, Single, Knows, Listed, T, M, MethodOf, Jobs
<1> QED
  BY <1>1, <1>2, <1>3, <1>4, <1>5, StepCases DEF Next, Main, Terminated

\* No host is listed that did not answer, for any number of targets, threads and calls
\* that interleave or raise, unless it is a loopback host, the only target, or recursive
\* mode takes silent hosts to be up.
THEOREM OnlyHostsFoundHolds == Spec => []OnlyHostsFound
<1>1. Init => FoundInv
  <2> SUFFICES ASSUME Init PROVE FoundInv
    OBVIOUS
  <2>1. \A t \in Targets : ~Listed(t) /\ tally[t]["up"] = 0
    BY DEF Init, Listed, Verdicts
  <2>2. \A th \in Threads : thread[th].pc = "idle"
    BY DEF Init, Idle
  <2> QED
    BY <2>1, <2>2 DEF FoundInv, Knows
<1>2. TypeInv /\ FoundInv => OnlyHostsFound
  BY ListedNext DEF TypeInv, FoundInv, Found, OnlyHostsFound
<1> QED
  BY <1>1, <1>2, InitType, StepType, FoundStep, PTL DEF Spec

-----------------------------------------------------------------------------
(* Who answers is listed *)

Holds(s, t) == \E i \in DOMAIN s : s[i] = t

LEMMA HoldsNext ==
  ASSUME TypeOK
  PROVE  /\ \A u \in Targets : targetss' = Append(targetss, u) =>
              \A t \in Targets : Holds(targetss', t) <=> Listed(t) \/ t = u
         /\ targetss' = targetss => \A t \in Targets : Holds(targetss', t) <=> Listed(t)
  BY ListedNext DEF Holds, Listed

\* A call that has had an answer and goes on to list or to count the host.
Brings(m, r) ==
  /\ r.pc \in {"read", "write", "check", "append"}
  /\ m \in {"ack", "ndp"} \/ (m = "ip" /\ r.verdict = "up")

\* The IP ping counted the host as up and has its verdict still to come.
Pending(t) ==
  /\ phase = "discover" /\ scan.methods[step] = "ip"
  /\ tally[t]["up"] > 0
  /\ \E i \in DOMAIN scan.targets : i > judged /\ scan.targets[i] = t

Against(t) == tally[t]["down"] > 0 \/ tally[t]["filtered"] > 0

Coming(t) == \E th \in Threads : Brings(M(th), thread[th]) /\ T(th) = t

AnswerInv ==
  /\ judged > 0 => \A th \in Threads : thread[th].pc = "idle"
  /\ judged > 0 => taken[0] = Len(Jobs(MethodOf(0)))
  /\ ~scan.ping_port => \A t \in answered : Listed(t) \/ Against(t) \/ Pending(t) \/ Coming(t)

LEMMA OrdinaryAnswered ==
  ASSUME TypeInv, NEW th \in Threads, Ordinary(th)
  PROVE  /\ T(th) \in answered' /\ T(th) \notin answered =>
              Holds(targetss', T(th)) \/ Brings(M(th), thread'[th])
         /\ Brings(M(th), thread[th]) =>
              \/ Holds(targetss', T(th)) \/ Brings(M(th), thread'[th])
              \/ M(th) = "ip" /\ tally'[T(th)]["up"] > 0
         /\ \A t \in Targets, v \in Verdicts : tally[t][v] > 0 => tally'[t][v] > 0
<1>1. /\ thread[th] \in Local /\ T(th) \in Targets /\ Place(M(th), thread[th])
      /\ thread \in [Threads -> Local] /\ thread[th].pc \notin {"idle", "nested"}
      /\ Idle.pc = "idle"
  BY OrdinaryMoves, BusyThread DEF TypeInv, TypeOK, Control, Local, Idle
<1>2. tally \in [Targets -> [Verdicts -> Nat]] /\ "up" \in Verdicts
  BY DEF TypeInv, TypeOK, Verdicts
<1>3. ASSUME targetss' = Append(targetss, T(th)) PROVE Holds(targetss', T(th))
  BY <1>1, <1>3, HoldsNext DEF TypeInv
<1>4. ASSUME Listed(T(th)), targetss' = targetss PROVE Holds(targetss', T(th))
  BY <1>4 DEF Holds, Listed
<1>5. ASSUME NEW label, Goto(th, label)
      PROVE  thread'[th].pc = label /\ thread'[th].verdict = thread[th].verdict
  BY <1>1, <1>5 DEF Goto, Local
<1>6. ASSUME RecordHostUp(T(th))
      PROVE  /\ Holds(targetss', T(th))
             /\ \A t \in Targets, v \in Verdicts : tally[t][v] > 0 => tally'[t][v] > 0
  <2>1. Holds(targetss', T(th))
    BY <1>3, <1>4, <1>6 DEF RecordHostUp, ListIfAbsent, List
  <2> DEFINE n == tally[T(th)]["up"] + 1
  <2>2. n > 0
    BY <1>1, <1>2
  <2>3. tally' = [tally EXCEPT ![T(th)]["up"] = n]
    BY <1>6 DEF RecordHostUp, Count
  <2> HIDE DEF n
  <2> QED
    BY <1>2, <2>1, <2>2, <2>3
<1>7. ASSUME thread[th].pc = "probe" PROVE ~Brings(M(th), thread[th])
  BY <1>7 DEF Brings
<1> USE DEF said, lists, List, Answer
<1>8. CASE LoopbackUp(th)
  BY <1>7, <1>8 DEF LoopbackUp, At
<1>9. CASE TcpUp(th)
  BY <1>6, <1>7, <1>9 DEF TcpUp, Probing, At
<1>10. CASE TcpDown(th)
  BY <1>7, <1>10 DEF TcpDown, Probing, At
<1>11. CASE PingUp(th)
  BY <1>6, <1>7, <1>11 DEF PingUp, Probing, At
<1>12. CASE PingSilent(th)
  BY <1>7, <1>12 DEF PingSilent, Probing, At
<1>13. CASE IcmpUp(th)
  BY <1>3, <1>7, <1>13 DEF IcmpUp, Probing, At
<1>14. CASE IcmpSilent(th)
  BY <1>7, <1>14 DEF IcmpSilent, Probing, At
<1>15. CASE AckUp(th)
  BY <1>5, <1>7, <1>15 DEF AckUp, Probing, At, Brings
<1>16. CASE AckSilent(th)
  BY <1>7, <1>16 DEF AckSilent, Probing, At
<1>17. CASE Check(th)
  BY <1>4, <1>5, <1>17 DEF Check, At, Brings
<1>18. CASE AppendHost(th)
  BY <1>3, <1>18 DEF AppendHost
<1>19. CASE ArpUp(th)
  BY <1>3, <1>7, <1>19 DEF ArpUp, Probing, At
<1>20. CASE ArpSilent(th)
  BY <1>7, <1>20 DEF ArpSilent, Probing, At
<1>21. CASE NdpUp(th)
  BY <1>4, <1>5, <1>7, <1>21 DEF NdpUp, Probing, At, Brings
<1>22. CASE NdpSilent(th)
  BY <1>7, <1>22 DEF NdpSilent, Probing, At
<1>23. CASE NdpSkips(th)
  BY <1>7, <1>23 DEF NdpSkips, Probing, At
<1>24. CASE IpProbe(th)
  <2>1. PICK v \in Verdicts :
          /\ thread' = [thread EXCEPT ![th].pc = "read", ![th].verdict = v]
          /\ IF v = "up" THEN Answer(T(th)) ELSE UNCHANGED answered
    BY <1>24 DEF IpProbe
  <2>2. thread'[th] = [thread[th] EXCEPT !.pc = "read", !.verdict = v]
    BY <1>1, <2>1
  <2>3. thread'[th].pc = "read" /\ thread'[th].verdict = v
    BY <1>1, <2>2 DEF Local
  <2>4. thread[th].pc = "probe" /\ M(th) = "ip" /\ tally' = tally
    BY <1>24 DEF IpProbe, Probing, At
  <2> QED
    BY <1>7, <2>1, <2>3, <2>4 DEF Brings
<1>25. CASE ReadCount(th)
  <2> DEFINE n == tally[T(th)][thread[th].verdict]
  <2>1. thread' = [thread EXCEPT ![th].pc = "write", ![th].seen = n] /\ thread[th].pc = "read"
        /\ UNCHANGED <<targetss, tally, answered>>
    BY <1>25 DEF ReadCount
  <2> HIDE DEF n
  <2>2. thread'[th] = [thread[th] EXCEPT !.pc = "write", !.seen = n]
    BY <1>1, <2>1
  <2>3. thread'[th].pc = "write" /\ thread'[th].verdict = thread[th].verdict
    BY <1>1, <2>2 DEF Local
  <2> QED
    BY <2>1, <2>3 DEF Brings
<1>26. CASE WriteCount(th)
  <2> DEFINE n == thread[th].seen + 1
             v == thread[th].verdict
  <2>1. /\ thread[th].pc = "write" /\ UNCHANGED <<targetss, answered>>
        /\ tally' = [tally EXCEPT ![T(th)][v] = n]
    BY <1>26 DEF WriteCount, Count
  <2>2. n > 0 /\ v \in Verdicts
    BY <1>1 DEF Local
  <2>3. M(th) \in {"icmp", "icmpv6", "ack", "ip"}
    BY <1>1, <2>1 DEF Place
  <2>4. M(th) = "ack" => thread'[th].pc = "check"
    BY <1>5, <1>26 DEF WriteCount, AttemptsLeft
  <2>5. v = thread[th].verdict
    OBVIOUS
  <2> HIDE DEF n, v
  <2>6. tally'[T(th)][v] > 0
        /\ \A t \in Targets, u \in Verdicts : tally[t][u] > 0 => tally'[t][u] > 0
    BY <1>1, <1>2, <2>1, <2>2
  <2> QED
    BY <2>1, <2>3, <2>4, <2>5, <2>6 DEF Brings
<1> QED
  BY <1>8, <1>9, <1>10, <1>11, <1>12, <1>13, <1>14, <1>15, <1>16, <1>17, <1>18, <1>19,
     <1>20, <1>21, <1>22, <1>23, <1>24, <1>25, <1>26 DEF Ordinary

\* Without a pool, only the thread that calls is busy, and one that waits for it.
LEMMA SoleThread ==
  ASSUME TypeInv, Inline, NEW th \in Threads, thread[th].pc \notin {"idle", "nested"},
         NEW x \in Threads, x # th
  PROVE  thread[x].pc \in {"idle", "nested"}
<1>1. SUFFICES ASSUME thread[x].pc \notin {"idle", "nested"} PROVE FALSE
  OBVIOUS
<1>2. th[2] = 1 /\ x[2] = 1 /\ th[1] \in Pools /\ x[1] \in Pools /\ th = <<th[1], th[2]>> /\ x = <<x[1], x[2]>>
  BY <1>1, Places DEF TypeInv, Control, Inline
<1>3. ASSUME NEW y \in Threads, thread[y].pc # "idle", y[1] # 0
      PROVE  y[1] = 1 /\ thread[<<0, 1>>].pc = "nested"
  <2>1. thread[<<0, y[1]>>].pc = "nested" /\ <<0, y[1]>> \in Threads /\ <<0, y[1]>>[2] = y[1]
    BY <1>3, Places DEF TypeInv, Control, Owner
  <2>2. y[1] <= 1 /\ y[1] \in 1..MaxThreads
    BY <1>3, <2>1, Places DEF TypeInv, Control, Inline
  <2> QED
    BY <2>1, <2>2
<1> QED
  BY <1>1, <1>2, <1>3

\* A nested pool belongs to an ICMP ping.
LEMMA NestedIsIcmp ==
  ASSUME TypeInv, NEW th \in Threads, thread[th].pc # "idle", th[1] # 0
  PROVE  scan.methods[step] = "icmp" /\ M(th) = "tcp" /\ scan.recursively
<1>1. thread[<<0, th[1]>>].pc = "nested" /\ <<0, th[1]>> \in Threads /\ <<0, th[1]>>[1] = 0
  BY Places DEF TypeInv, Control, Owner
<1>2. M(<<0, th[1]>>) = "icmp" /\ scan.recursively
  BY <1>1 DEF TypeInv, Control, Place
<1> QED
  BY <1>1, <1>2 DEF M, MethodOf

LEMMA AnswerStep == TypeInv /\ AnswerInv /\ [Next]_vars => AnswerInv'
<1> SUFFICES ASSUME TypeInv, AnswerInv, [Next]_vars PROVE AnswerInv'
  OBVIOUS
<1>1. judged \in Nat /\ answered \subseteq Targets /\ scan.targets \in Seq(Targets)
  BY ScanFields DEF TypeInv, TypeOK
<1>2. ASSUME NEW th \in Threads, thread[th].pc # "idle"
      PROVE  judged = 0 /\ phase = "discover"
  BY <1>1, <1>2 DEF AnswerInv, TypeInv, Control, Over
<1>3. ASSUME NEW th \in Threads, Ordinary(th)
      PROVE  AnswerInv'
  <2>1. /\ UNCHANGED <<scan, step, taken, judged, phase>> /\ T(th) \in Targets
        /\ thread[th].pc # "idle" /\ Moves(th) /\ judged = 0 /\ phase = "discover"
        /\ answered' \subseteq answered \cup {T(th)}
    BY <1>2, <1>3, OrdinaryMoves, OrdinaryLists
  <2>2. \A t \in Targets : Listed(t) => Listed(t)'
    BY <1>3, <2>1, OrdinaryLists, ListedNext DEF TypeInv
  <2>3. \A t \in Targets : Against(t) => Against(t)'
    BY <1>3, OrdinaryAnswered DEF Against, Verdicts
  <2>4. \A t \in Targets : Pending(t) => Pending(t)'
    BY <1>3, <2>1, OrdinaryAnswered DEF Pending, Verdicts
  <2>5. ASSUME NEW x \in Threads, NEW t \in Targets, thread'[x].pc # "idle",
               Brings(M(x), thread'[x]), T(x) = t
        PROVE  Coming(t)'
    <3>1. thread'[x].job = thread[x].job
      BY <2>1, <2>5 DEF Moves
    <3>2. T(x)' = T(x) /\ M(x)' = M(x)
      BY <2>1, <3>1, SameTarget, SameScan
    <3>3. Brings(M(x), thread[x])'
      BY <2>5, <3>2 DEF Brings
    <3> QED
      BY <2>5, <3>2, <3>3 DEF Coming
  <2>6. Brings(M(th), thread'[th]) => thread'[th].pc # "idle"
    BY DEF Brings
  <2>7. ASSUME Holds(targetss', T(th)), NEW t \in Targets, t = T(th) PROVE Listed(t)'
    BY <2>7 DEF Listed, Holds
  <2>8. ASSUME NEW t \in answered', ~scan.ping_port
        PROVE  Listed(t)' \/ Against(t)' \/ Pending(t)' \/ Coming(t)'
    <3>1. t \in Targets
      BY <1>1, <2>1, <2>8
    <3>2. CASE t \notin answered
      BY <1>3, <2>1, <2>5, <2>6, <2>7, <2>8, <3>1, <3>2, OrdinaryAnswered
    <3>3. CASE t \in answered /\ ~Coming(t)
      BY <2>2, <2>3, <2>4, <2>8, <3>1, <3>3 DEF AnswerInv
    <3>4. CASE Coming(t)
      <4>1. PICK x \in Threads : Brings(M(x), thread[x]) /\ T(x) = t
        BY <3>4 DEF Coming
      <4>2. CASE x # th
        <5>1. thread'[x] = thread[x]
          BY <2>1, <4>2 DEF Moves
        <5> QED
          BY <2>5, <3>1, <4>1, <5>1 DEF Brings
      <4>3. CASE x = th
        <5>1. CASE Holds(targetss', T(th)) \/ Brings(M(th), thread'[th])
          BY <2>5, <2>6, <2>7, <3>1, <4>1, <4>3, <5>1
        <5>2. CASE M(th) = "ip" /\ tally'[T(th)]["up"] > 0
          <6>1. scan.methods[step] = "ip"
            BY <5>2 DEF M, MethodOf
          <6>2. \E i \in DOMAIN scan.targets : i > 0 /\ scan.targets[i] = t
            BY <1>1, <2>1, <4>1, <4>3, BusyThread
          <6> QED
            BY <2>1, <4>1, <4>3, <5>2, <6>1, <6>2 DEF Pending
        <5> QED
          BY <1>3, <4>1, <4>3, <5>1, <5>2, OrdinaryAnswered
      <4> QED
        BY <4>2, <4>3
    <3> QED
      BY <3>2, <3>3, <3>4
  <2>9. ~(judged > 0)'
    BY <2>1
  <2> QED
    BY <2>1, <2>8, <2>9 DEF AnswerInv
<1>4. ASSUME NEW th \in Threads,
             Take(th) \/ ProbeRaises(th) \/ AckRaises(th) \/ IcmpRecurses(th) \/ FinishNested(th)
      PROVE  AnswerInv'
  <2>1. UNCHANGED <<scan, step, judged, targetss, tally, answered, announced>>
    BY <1>4, OtherSteps
  <2>2. judged = 0
    <3>1. ASSUME Take(th), judged > 0 PROVE FALSE
      <4>1. /\ taken[0] = Len(Jobs(MethodOf(0))) /\ th[1] \in Pools
            /\ \A x \in Threads : thread[x].pc = "idle"
        BY <3>1, Places DEF AnswerInv
      <4>2. scan \in Discoveries /\ taken[0] \in Int
        BY Places DEF TypeInv, TypeOK
      <4>3. th[1] # 0
        BY <3>1, <4>1, <4>2 DEF Take
      <4>4. thread[<<0, th[1]>>].pc = "nested" /\ <<0, th[1]>> \in Threads
        BY <3>1, <4>3, Places DEF Take, Open
      <4> QED
        BY <4>1, <4>4
    <3>2. ProbeRaises(th) \/ AckRaises(th) \/ IcmpRecurses(th) \/ FinishNested(th) =>
            thread[th].pc # "idle"
      BY DEF ProbeRaises, AckRaises, IcmpRecurses, FinishNested, Probing, At
    <3> QED
      BY <1>1, <1>2, <1>4, <3>1, <3>2
  <2>3. ASSUME NEW t \in Targets, Listed(t) \/ Against(t) PROVE Listed(t)' \/ Against(t)'
    BY <2>1, <2>3 DEF Listed, Against
  <2>4. CASE phase' = phase /\ \A x \in Threads : Brings(M(x), thread[x]) => thread'[x] = thread[x]
    <3>1. ASSUME NEW t \in Targets, Coming(t) PROVE Coming(t)'
      <4>1. PICK x \in Threads : Brings(M(x), thread[x]) /\ T(x) = t
        BY <3>1 DEF Coming
      <4>2. T(x)' = T(x) /\ M(x)' = M(x) /\ thread'[x] = thread[x]
        BY <2>1, <2>4, <4>1, SameTarget, SameScan
      <4>3. Brings(M(x), thread[x])'
        BY <4>1, <4>2 DEF Brings
      <4> QED
        BY <4>1, <4>2, <4>3 DEF Coming
    <3>2. \A t \in Targets : Pending(t) => Pending(t)'
      BY <2>1, <2>4 DEF Pending
    <3> QED
      BY <1>1, <2>1, <2>2, <2>3, <2>4, <3>1, <3>2 DEF AnswerInv
  <2>5. CASE ProbeRaises(th) \/ AckRaises(th)
    <3>1. CASE scan.ping_port
      BY <2>1, <2>2, <3>1 DEF AnswerInv
    <3>2. CASE ~scan.ping_port /\ ~Inline
      <4>1. Probing(th, Methods \ {"ip", "ndp"}) /\ Return(th) /\ phase' = phase
        BY <2>5, <3>2 DEF ProbeRaises, AckRaises, Fail
      <4>2. ~Brings(M(th), thread[th])
        BY <4>1 DEF Probing, At, Brings
      <4>3. \A x \in Threads \ {th} : thread'[x] = thread[x]
        BY <4>1 DEF Return
      <4> QED
        BY <2>4, <4>1, <4>2, <4>3
    <3>3. CASE ~scan.ping_port /\ Inline
      <4>1. thread[th].pc = "probe" /\ M(th) \notin {"ip", "ndp"}
        BY <2>5, <3>3 DEF ProbeRaises, AckRaises, Probing, At
      <4>2. \A x \in Threads : ~Brings(M(x), thread[x])
        BY <3>3, <4>1, SoleThread DEF Brings
      <4>3. scan.methods[step] # "ip"
        BY <4>1, NestedIsIcmp DEF M, MethodOf
      <4>4. \A t \in answered : Listed(t) \/ Against(t)
        BY <3>3, <4>2, <4>3 DEF AnswerInv, Coming, Pending
      <4> QED
        BY <1>1, <2>1, <2>2, <2>3, <4>4 DEF AnswerInv
    <3> QED
      BY <3>1, <3>2, <3>3
  <2>6. CASE Take(th) \/ IcmpRecurses(th) \/ FinishNested(th)
    <3>1. phase' = phase /\ thread[th].pc \in {"idle", "probe", "nested"}
      BY <2>6 DEF Take, IcmpRecurses, FinishNested, Probing, At
    <3>2. \A x \in Threads \ {th} : thread'[x] = thread[x]
      BY <2>6 DEF Take, IcmpRecurses, FinishNested, Return, Goto, TypeInv, TypeOK
    <3>3. ~Brings(M(th), thread[th])
      BY <3>1 DEF Brings
    <3> QED
      BY <2>4, <3>1, <3>2, <3>3
  <2> QED
    BY <1>4, <2>5, <2>6
<1>5. ASSUME Judge PROVE AnswerInv'
  <2> DEFINE u == scan.targets[judged + 1]
  <2>1. /\ judged < Len(scan.targets) /\ judged' = judged + 1
        /\ scan.methods[step] = "ip" /\ Finished(0)
        /\ IF TakenUp(u) THEN ListIfAbsent(u) ELSE UNCHANGED targetss
        /\ UNCHANGED <<scan, step, tally, taken, thread, phase, answered>>
    BY <1>5 DEF Judge
  <2>2. u \in Targets
    BY <1>1, <2>1
  <2>3. \A th \in Threads : thread[th].pc = "idle"
    BY <2>1, AllIdle
  <2>4. taken[0] = Len(Jobs(MethodOf(0)))
    BY <2>1 DEF Finished
  <2>5. \A t \in Targets : Listed(t) => Listed(t)'
    BY <2>1, <2>2, ListedNext DEF TypeInv, ListIfAbsent, List
  <2>6. ASSUME NEW t \in Targets, t = u, Pending(t) PROVE Listed(t)' \/ Against(t)'
    <3>1. CASE TakenUp(t)
      BY <2>1, <2>2, <2>6, <3>1, ListedNext DEF TypeInv, ListIfAbsent, List
    <3>2. CASE ~TakenUp(t)
      <4>1. PICK v \in Verdicts \ {"up"} : ~(tally[t]["up"] > tally[t][v])
        BY <3>2 DEF TakenUp, Wins
      <4>2. tally[t]["up"] \in Nat /\ tally[t][v] \in Nat /\ tally[t]["up"] > 0
        BY <2>6 DEF TypeInv, TypeOK, Verdicts, Pending
      <4>3. tally[t][v] > 0
        BY <4>1, <4>2
      <4> QED
        BY <2>1, <4>1, <4>3 DEF Against, Verdicts
    <3> QED
      BY <3>1, <3>2
  <2>7. ASSUME NEW t \in Targets, t # u, Pending(t) PROVE Pending(t)'
    <3>1. PICK i \in DOMAIN scan.targets : i > judged /\ scan.targets[i] = t
      BY <2>7 DEF Pending
    <3>2. i > judged + 1
      <4>1. i # judged + 1
        BY <2>7, <3>1
      <4> QED
        BY <1>1, <3>1, <4>1
    <3> QED
      BY <2>1, <2>7, <3>1, <3>2 DEF Pending
  <2>8. \A t \in Targets : ~Coming(t)
    BY <2>3 DEF Coming, Brings
  <2>9. \A t \in Targets : Against(t) => Against(t)'
    BY <2>1 DEF Against
  <2>10. (taken[0] = Len(Jobs(MethodOf(0))))'
    BY <2>1, <2>4 DEF MethodOf, Jobs
  <2> HIDE DEF u
  <2>11. ~scan.ping_port => \A t \in answered : Listed(t)' \/ Against(t)' \/ Pending(t)'
    BY <1>1, <2>5, <2>6, <2>7, <2>8, <2>9 DEF AnswerInv
  <2> QED
    BY <2>1, <2>3, <2>10, <2>11 DEF AnswerInv
<1>6. ASSUME FinishMethod PROVE AnswerInv'
  <2>1. /\ UNCHANGED <<scan, targetss, tally, thread, answered>> /\ judged' = 0
        /\ scan.methods[step] = "ip" => judged = Len(scan.targets)
        /\ \A th \in Threads : thread[th].pc = "idle"
    BY <1>6, AllIdle DEF FinishMethod, lists
  <2>2. \A t \in Targets : ~Coming(t)
    BY <2>1 DEF Coming, Brings
  <2>3. \A t \in Targets : ~Pending(t)
    <3>1. \A i \in DOMAIN scan.targets : ~(i > Len(scan.targets))
      BY <1>1
    <3> QED
      BY <2>1, <3>1 DEF Pending
  <2>4. \A t \in Targets : Listed(t) \/ Against(t) => Listed(t)' \/ Against(t)'
    BY <2>1 DEF Listed, Against
  <2> QED
    BY <1>1, <2>1, <2>2, <2>3, <2>4 DEF AnswerInv
<1>7. CASE UNCHANGED vars
  <2> USE <1>7 DEF vars, lists, said
  <2>1. \A t : Listed(t)' = Listed(t) /\ Against(t)' = Against(t) /\ Pending(t)' = Pending(t)
    BY DEF Listed, Against, Pending
  <2>2. \A t : Coming(t)' = Coming(t)
    BY DEF Coming, Brings, T, M, MethodOf, Jobs
  <2>3. Jobs(MethodOf(0))' = Jobs(MethodOf(0))
    BY DEF MethodOf, Jobs
  <2> QED
    BY <2>1, <2>2, <2>3 DEF AnswerInv
<1> QED
  BY <1>3, <1>4, <1>5, <1>6, <1>7, StepCases DEF Next, Main, Terminated

\* A host that answered is listed when the discovery is over, for any number of threads,
\* although a call looks, counts and appends in several steps and increments get lost: no
\* exception strikes between the answer and the append, but in an ACK ping of chosen ports.
THEOREM AnsweringHostsListedHolds == Spec => []AnsweringHostsListed
<1>1. Init => AnswerInv
  BY DEF Init, AnswerInv
<1>2. TypeInv /\ AnswerInv => AnsweringHostsListed
  <2> SUFFICES ASSUME TypeInv, AnswerInv, Over, ~scan.ping_port, NEW t \in answered
               PROVE  Listed(t) \/ tally[t]["down"] + tally[t]["filtered"] > 0
    BY DEF AnsweringHostsListed
  <2>1. ~Pending(t) /\ ~Coming(t)
    BY DEF Pending, Coming, Brings, Over, TypeInv, Control
  <2>2. tally[t]["down"] \in Nat /\ tally[t]["filtered"] \in Nat
    BY DEF TypeInv, TypeOK, Verdicts
  <2> QED
    BY <2>1, <2>2 DEF AnswerInv, Against
<1> QED
  BY <1>1, <1>2, InitType, StepType, AnswerStep, PTL DEF Spec

-----------------------------------------------------------------------------
(* Nobody is listed twice *)

\* A call lists a host it found absent, or has not looked; after it has, it is over.
LEMMA OrdinaryListing ==
  ASSUME TypeInv, NEW th \in Threads, Ordinary(th)
  PROVE  /\ \/ targetss' = targetss
            \/ /\ targetss' = Append(targetss, T(th))
               /\ \/ T(th) \in Loopback
                  \/ ~Listed(T(th)) /\ M(th) \in {"tcp", "syn", "udp"}
                  \/ thread[th].pc = "append" /\ M(th) \in {"ack", "ndp"}
                  \/ thread[th].pc = "probe" /\ M(th) \in {"icmp", "icmpv6", "arp"}
               /\ thread'[th].pc \notin {"probe", "append"}
         /\ thread'[th].pc = "append" =>
              \/ M(th) = "ack" /\ ~Listed(T(th)) /\ targetss' = targetss
              \/ M(th) = "ndp" /\ thread[th].pc = "probe" /\ targetss' = targetss
         /\ thread'[th].pc = "probe" => M(th) = "ip"
<1>1. /\ thread[th] \in Local /\ T(th) \in Targets /\ Place(M(th), thread[th])
      /\ thread \in [Threads -> Local] /\ thread[th].pc \notin {"idle", "nested"}
      /\ Idle.pc = "idle"
  BY OrdinaryMoves, BusyThread DEF TypeInv, TypeOK, Control, Local, Idle
<1>2. ASSUME Return(th) PROVE thread'[th].pc = "idle"
  BY <1>1, <1>2 DEF Return
<1>3. ASSUME NEW label, Goto(th, label) PROVE thread'[th].pc = label
  BY <1>1, <1>3 DEF Goto, Local
<1> USE DEF said, lists, List, ListIfAbsent
<1>4. CASE LoopbackUp(th)
  BY <1>2, <1>4 DEF LoopbackUp
<1>5. CASE TcpUp(th)
  BY <1>2, <1>5 DEF TcpUp, Probing, At, RecordHostUp
<1>6. CASE TcpDown(th)
  BY <1>2, <1>6 DEF TcpDown
<1>7. CASE PingUp(th)
  BY <1>2, <1>7 DEF PingUp, Probing, At, RecordHostUp
<1>8. CASE PingSilent(th)
  BY <1>2, <1>8 DEF PingSilent, Probing, At
<1>9. CASE IcmpUp(th)
  BY <1>3, <1>9 DEF IcmpUp, Probing, At
<1>10. CASE IcmpSilent(th)
  BY <1>2, <1>10 DEF IcmpSilent, Probing, At
<1>11. CASE AckUp(th)
  BY <1>3, <1>11 DEF AckUp
<1>12. CASE AckSilent(th)
  BY <1>2, <1>3, <1>12 DEF AckSilent, Probing, At
<1>13. CASE Check(th)
  BY <1>2, <1>3, <1>13 DEF Check, At
<1>14. CASE AppendHost(th)
  BY <1>2, <1>14 DEF AppendHost, At
<1>15. CASE ArpUp(th)
  BY <1>2, <1>15 DEF ArpUp, Probing, At
<1>16. CASE ArpSilent(th)
  BY <1>2, <1>16 DEF ArpSilent
<1>17. CASE NdpUp(th)
  BY <1>2, <1>3, <1>17 DEF NdpUp, Probing, At
<1>18. CASE NdpSilent(th)
  BY <1>2, <1>3, <1>18 DEF NdpSilent, Probing, At
<1>19. CASE NdpSkips(th)
  BY <1>2, <1>19 DEF NdpSkips
<1>20. CASE IpProbe(th)
  <2>1. PICK v \in Verdicts : thread' = [thread EXCEPT ![th].pc = "read", ![th].verdict = v]
    BY <1>20 DEF IpProbe
  <2>2. thread'[th] = [thread[th] EXCEPT !.pc = "read", !.verdict = v]
    BY <1>1, <2>1
  <2>3. thread'[th].pc = "read"
    BY <1>1, <2>2 DEF Local
  <2> QED
    BY <1>20, <2>3 DEF IpProbe
<1>21. CASE ReadCount(th)
  <2> DEFINE n == tally[T(th)][thread[th].verdict]
  <2>1. thread' = [thread EXCEPT ![th].pc = "write", ![th].seen = n] /\ UNCHANGED targetss
    BY <1>21 DEF ReadCount
  <2> HIDE DEF n
  <2>2. thread'[th] = [thread[th] EXCEPT !.pc = "write", !.seen = n]
    BY <1>1, <2>1
  <2>3. thread'[th].pc = "write"
    BY <1>1, <2>2 DEF Local
  <2> QED
    BY <2>1, <2>3
<1>22. CASE WriteCount(th)
  <2>1. ASSUME ~AttemptsLeft(th) PROVE thread'[th].pc \in {"check", "idle"}
    BY <1>2, <1>3, <1>22, <2>1 DEF WriteCount
  <2>2. ASSUME AttemptsLeft(th) PROVE thread'[th].pc = "probe" /\ M(th) = "ip"
    <3>1. thread' = [thread EXCEPT ![th].pc = "probe", ![th].attempt = @ + 1,
                                   ![th].verdict = "up", ![th].seen = 0]
      BY <1>22, <2>2 DEF WriteCount
    <3>2. thread'[th] = [thread[th] EXCEPT !.pc = "probe", !.attempt = @ + 1,
                                           !.verdict = "up", !.seen = 0]
      BY <1>1, <3>1
    <3> QED
      BY <1>1, <2>2, <3>2 DEF Local, AttemptsLeft
  <2> QED
    BY <1>22, <2>1, <2>2 DEF WriteCount
<1> QED
  BY <1>4, <1>5, <1>6, <1>7, <1>8, <1>9, <1>10, <1>11, <1>12, <1>13, <1>14, <1>15, <1>16,
     <1>17, <1>18, <1>19, <1>20, <1>21, <1>22 DEF Ordinary

\* A guarded discovery runs one method and starts no pool inside a worker.
LEMMA GuardedFlat ==
  ASSUME TypeInv, Guarded
  PROVE  /\ step = 1 /\ MethodOf(0) = scan.methods[1]
         /\ \A th \in Threads : thread[th].pc # "idle" =>
              th[1] = 0 /\ M(th) = scan.methods[1] /\ thread[th].pc # "nested"
<1>1. step = 1
  BY MethodsType DEF TypeInv, TypeOK, Guarded
<1>2. scan.methods[1] = "icmp" => ~scan.recursively
  BY DEF Guarded
<1>3. ASSUME NEW th \in Threads, thread[th].pc # "idle" PROVE th[1] = 0 /\ thread[th].pc # "nested"
  <2>1. th[1] = 0
    BY <1>1, <1>2, <1>3, NestedIsIcmp
  <2>2. thread[th].pc # "nested"
    BY <1>1, <1>2, <2>1 DEF TypeInv, Control, Place, M, MethodOf
  <2> QED
    BY <2>1, <2>2
<1> QED
  BY <1>1, <1>3 DEF M, MethodOf

\* One call per host.
OneCall == scan.methods[1] \in {"icmp", "icmpv6", "arp", "ndp"}

Once == \A i, j \in DOMAIN targetss :
          targetss[i] = targetss[j] /\ targetss[i] \notin Loopback => i = j

\* No job is held by two threads.
Distinct == \A x, y \in Threads :
  x # y /\ thread[x].pc # "idle" /\ thread[y].pc # "idle" => thread[x].job # thread[y].job

\* A call that will list its host without another look at the list, or has still to look,
\* finds it absent.
Absent == \A th \in Threads :
  /\ thread[th].pc = "append" \/ (thread[th].pc = "probe" /\ OneCall)
  /\ T(th) \notin Loopback
  => ~Listed(T(th))

\* So does a call that no thread has begun.
Untaken ==
  OneCall /\ phase = "discover" => \A n \in DOMAIN Jobs(MethodOf(0)) :
    n > taken[0] /\ Jobs(MethodOf(0))[n] \notin Loopback => ~Listed(Jobs(MethodOf(0))[n])

OnceInv == Guarded => Once /\ Distinct /\ Absent /\ Untaken

\* Where each host has one call, two jobs are for two hosts.
LEMMA OneCallTargets ==
  ASSUME TypeInv, Guarded, OneCall
  PROVE  \A k, n \in DOMAIN Jobs(MethodOf(0)) :
           Jobs(MethodOf(0))[k] = Jobs(MethodOf(0))[n] => k = n
<1>1. scan.methods[1] \notin PerPort \cup {"ip"}
  BY DEF OneCall, PerPort
<1>2. MethodOf(0) = scan.methods[1] /\ scan \in Discoveries
  BY GuardedFlat DEF TypeInv, TypeOK
<1>3. \A i, j \in DOMAIN scan.targets : scan.targets[i] = scan.targets[j] => i = j
  BY DEF Guarded, OneCall
<1>4. scan.targets \in Seq(Targets)
  BY <1>2, ScanFields
<1>5. /\ DOMAIN Jobs(MethodOf(0)) = 1..Len(Jobs(MethodOf(0)))
      /\ Len(Jobs(MethodOf(0))) = Len(scan.targets)
      /\ \A n \in DOMAIN Jobs(MethodOf(0)) : Jobs(MethodOf(0))[n] = scan.targets[n]
  BY <1>1, <1>2, JobsType
<1>6. DOMAIN scan.targets = 1..Len(scan.targets)
  BY <1>4
<1> QED
  BY <1>3, <1>5, <1>6

LEMMA OnceNext ==
  ASSUME TypeInv, Once
  PROVE  /\ \A u \in Targets :
              targetss' = Append(targetss, u) /\ (u \in Loopback \/ ~Listed(u)) => Once'
         /\ targetss' = targetss => Once'
<1>1. targetss \in Seq(Targets)
  BY DEF TypeInv, TypeOK
<1>2. ASSUME NEW u \in Targets, targetss' = Append(targetss, u), u \in Loopback \/ ~Listed(u)
      PROVE  Once'
  <2>1. /\ DOMAIN targetss' = 1 .. Len(targetss) + 1 /\ DOMAIN targetss = 1 .. Len(targetss)
        /\ targetss'[Len(targetss) + 1] = u /\ Len(targetss) \in Nat
        /\ \A i \in 1 .. Len(targetss) : targetss'[i] = targetss[i]
    BY <1>1, <1>2
  <2>2. \A i \in 1 .. Len(targetss) : u \notin Loopback => targetss[i] # u
    BY <1>2, <2>1 DEF Listed
  <2> SUFFICES ASSUME NEW i \in 1 .. Len(targetss) + 1, NEW j \in 1 .. Len(targetss) + 1,
                      targetss'[i] = targetss'[j], targetss'[i] \notin Loopback
               PROVE  i = j
    BY <2>1 DEF Once
  <2>3. CASE i \in 1 .. Len(targetss) /\ j \in 1 .. Len(targetss)
    BY <2>1, <2>3 DEF Once
  <2>4. CASE i = Len(targetss) + 1 \/ j = Len(targetss) + 1
    BY <2>1, <2>2, <2>4
  <2> QED
    BY <2>1, <2>3, <2>4
<1> QED
  BY <1>2 DEF Once

\* What the next state has of the last, in a discovery that runs the same method.
LEMMA SameGuard ==
  ASSUME UNCHANGED scan
  PROVE  Guarded' = Guarded /\ OneCall' = OneCall /\ Inline' = Inline
  BY DEF Guarded, OneCall, Inline

\* In a discovery with one call per host, another call is for another host.
LEMMA OtherHost ==
  ASSUME TypeInv, Guarded, OneCall, Distinct, NEW th \in Threads, thread[th].pc # "idle"
  PROVE  /\ \A x \in Threads : x # th /\ thread[x].pc # "idle" => T(x) # T(th)
         /\ \A n \in DOMAIN Jobs(MethodOf(0)) :
              n > taken[0] => Jobs(MethodOf(0))[n] # T(th)
<1>1. ASSUME NEW x \in Threads, thread[x].pc # "idle"
      PROVE  /\ x[1] = 0 /\ thread[x].job \in DOMAIN Jobs(MethodOf(0))
             /\ T(x) = Jobs(MethodOf(0))[thread[x].job] /\ thread[x].job <= taken[0]
  <2>1. x[1] = 0 /\ M(x) = MethodOf(0)
    BY <1>1, GuardedFlat
  <2> QED
    BY <1>1, <2>1, BusyThread DEF T, TypeInv, TypeOK
<1>2. ASSUME NEW x \in Threads, x # th, thread[x].pc # "idle" PROVE T(x) # T(th)
  BY <1>1, <1>2, OneCallTargets DEF Distinct
<1>3. ASSUME NEW n \in DOMAIN Jobs(MethodOf(0)), n > taken[0]
      PROVE  Jobs(MethodOf(0))[n] # T(th)
  <2>1. n # thread[th].job
    <3>1. thread[th].job <= taken[0] /\ thread[th].job \in Int /\ taken[0] \in Int /\ n \in Int
      <4>1. scan \in Discoveries
        BY DEF TypeInv, TypeOK
      <4>2. MostJobs \in Nat /\ n \in Int
        BY <4>1, ScanFields, JobsType DEF MostJobs
      <4> QED
        BY <1>1, <4>2, Places DEF TypeInv, TypeOK
    <3> QED
      BY <1>3, <3>1
  <2> QED
    BY <1>1, <2>1, OneCallTargets
<1> QED
  BY <1>2, <1>3

LEMMA OrdinaryOnce ==
  ASSUME TypeInv, OnceInv, NEW th \in Threads, Ordinary(th)
  PROVE  OnceInv'
<1>1. /\ UNCHANGED <<scan, step, taken, phase>> /\ T(th) \in Targets
      /\ thread[th].pc \notin {"idle", "nested"} /\ Moves(th) /\ thread[th] \in Local
  BY OrdinaryMoves, BusyThread
<1>2. (Guarded' <=> Guarded) /\ (OneCall' <=> OneCall)
  BY <1>1, SameGuard
<1> SUFFICES ASSUME Guarded PROVE Once' /\ Distinct' /\ Absent' /\ Untaken'
  BY <1>2 DEF OnceInv
<1>3. Once /\ Distinct /\ Absent /\ Untaken
  BY DEF OnceInv
<1>4. \A x \in Threads : thread[x].pc # "idle" =>
        x[1] = 0 /\ M(x) = scan.methods[1] /\ thread[x].pc # "nested"
  BY GuardedFlat
<1>5. targetss' # targetss =>
        targetss' = Append(targetss, T(th)) /\ (T(th) \in Loopback \/ ~Listed(T(th)))
  <2>1. thread[th].pc = "probe" /\ M(th) \in {"icmp", "icmpv6", "arp"} => OneCall
    BY <1>1, <1>4 DEF OneCall
  <2> QED
    BY <1>3, <2>1, OrdinaryListing DEF Absent
<1>6. Once'
  BY <1>1, <1>3, <1>5, OnceNext
<1>7. Distinct'
  BY <1>1, <1>3 DEF Distinct, Moves
<1>8. Absent'
  <2> SUFFICES ASSUME NEW x \in Threads,
                      thread'[x].pc = "append" \/ (thread'[x].pc = "probe" /\ OneCall),
                      T(x)' \notin Loopback
               PROVE  ~Listed(T(x))'
    BY <1>2 DEF Absent
  <2>1. /\ thread[x].pc # "idle" /\ thread'[x].job = thread[x].job
        /\ T(x)' = T(x) /\ T(x) \in Targets /\ M(x) = scan.methods[1]
    BY <1>1, <1>4, SameTarget, BusyThread DEF Moves
  <2>2. ~Listed(T(x)) /\ (targetss' = targetss \/ T(x) # T(th))
    <3>1. CASE x = th
      <4>1. thread'[x].pc = "append"
        BY <2>1, <3>1, OrdinaryListing DEF OneCall
      <4> QED
        BY <1>3, <2>1, <3>1, <4>1, OrdinaryListing DEF Absent, OneCall
    <3>2. CASE x # th
      <4>1. thread'[x] = thread[x]
        BY <1>1, <3>2 DEF Moves
      <4>2. ~Listed(T(x))
        BY <1>3, <2>1, <4>1 DEF Absent
      <4>3. CASE OneCall
        BY <1>1, <1>3, <2>1, <3>2, <4>2, <4>3, OtherHost
      <4>4. CASE ~OneCall
        <5>1. thread[x].pc = "append" /\ M(x) = "ack"
          BY <2>1, <4>1, <4>4 DEF TypeInv, Control, Place, OneCall
        <5>2. Inline
          BY <2>1, <5>1 DEF Guarded
        <5> QED
          BY <1>1, <3>2, <5>1, <5>2, SoleThread
      <4> QED
        BY <4>3, <4>4
    <3> QED
      BY <3>1, <3>2
  <2>3. ~Holds(targetss', T(x))
    BY <1>1, <1>5, <2>1, <2>2, HoldsNext DEF TypeInv
  <2> QED
    BY <2>1, <2>3 DEF Holds, Listed
<1>9. Untaken'
  <2>1. MethodOf(0)' = MethodOf(0) /\ Jobs(MethodOf(0))' = Jobs(MethodOf(0))
    BY <1>1 DEF MethodOf, Jobs
  <2> DEFINE J == Jobs(MethodOf(0))
  <2> SUFFICES ASSUME OneCall, phase = "discover", NEW n \in DOMAIN J, n > taken[0],
                      J[n] \notin Loopback
               PROVE  ~Holds(targetss', J[n])
    BY <1>1, <1>2, <2>1 DEF Untaken, Holds, Listed
  <2>2. ~Listed(J[n]) /\ J[n] # T(th) /\ J[n] \in Targets
    BY <1>1, <1>3, OtherHost, JobsType DEF Untaken, TypeInv, TypeOK
  <2> HIDE DEF J
  <2> QED
    BY <1>1, <1>5, <2>2, HoldsNext DEF TypeInv
<1> QED
  BY <1>6, <1>7, <1>8, <1>9

LEMMA OnceStep == TypeInv /\ AnswerInv /\ OnceInv /\ [Next]_vars => OnceInv'
<1> SUFFICES ASSUME TypeInv, AnswerInv, OnceInv, [Next]_vars PROVE OnceInv'
  OBVIOUS
<1>1. thread \in [Threads -> Local] /\ Idle.pc = "idle"
  BY DEF TypeInv, TypeOK, Local, Idle
<1>2. ASSUME NEW th \in Threads, Take(th)
      PROVE  OnceInv'
  <2> DEFINE r == [Idle EXCEPT !.job = taken[th[1]] + 1, !.pc = "probe"]
  <2>1. /\ UNCHANGED <<scan, step, targetss, phase>> /\ Open(th[1]) /\ th[1] \in Pools
        /\ taken' = [taken EXCEPT ![th[1]] = @ + 1]
        /\ taken[th[1]] < Len(Jobs(MethodOf(th[1])))
        /\ thread' = [thread EXCEPT ![th] = r]
    BY <1>2, Places DEF Take, lists
  <2>2. r.pc = "probe" /\ r.job = taken[th[1]] + 1
    BY DEF Idle
  <2> HIDE DEF r
  <2>3. thread'[th] = r /\ \A x \in Threads \ {th} : thread'[x] = thread[x]
    BY <1>1, <2>1
  <2>4. (Guarded' <=> Guarded) /\ (OneCall' <=> OneCall)
    BY <2>1, SameGuard
  <2> SUFFICES ASSUME Guarded PROVE Once' /\ Distinct' /\ Absent' /\ Untaken'
    BY <2>4 DEF OnceInv
  <2>5. Once /\ Distinct /\ Absent /\ Untaken
    BY DEF OnceInv
  <2>6. th[1] = 0
    <3>1. ASSUME th[1] # 0 PROVE FALSE
      <4>1. thread[<<0, th[1]>>].pc = "nested" /\ <<0, th[1]>> \in Threads
        BY <2>1, <3>1, Places DEF Open
      <4> QED
        BY <4>1, GuardedFlat
    <3> QED
      BY <3>1
  <2>7. \A x \in Threads : thread[x].pc # "idle" => thread[x].job \in Int /\ thread[x].job <= taken[0]
    BY <1>1, <2>6, GuardedFlat DEF TypeInv, TypeOK, Local
  <2>8. taken[0] \in Nat /\ taken'[0] = taken[0] + 1
    <3>1. MostJobs \in Nat
      BY ScanFields DEF TypeInv, TypeOK, MostJobs
    <3> QED
      BY <2>1, <2>6, <3>1, Places DEF TypeInv, TypeOK
  <2>9. MethodOf(0)' = MethodOf(0) /\ Jobs(MethodOf(0))' = Jobs(MethodOf(0))
    BY <2>1 DEF MethodOf, Jobs
  <2>10. Distinct'
    <3> SUFFICES ASSUME NEW x \in Threads, NEW y \in Threads, x # y,
                        thread'[x].pc # "idle", thread'[y].pc # "idle"
                 PROVE  thread'[x].job # thread'[y].job
      BY DEF Distinct
    <3>1. \A z \in Threads \ {th} : thread'[z].pc # "idle" => thread'[z].job # thread'[th].job
      BY <2>2, <2>3, <2>6, <2>7, <2>8
    <3>2. CASE x # th /\ y # th
      BY <2>3, <2>5, <3>2 DEF Distinct
    <3> QED
      BY <3>1, <3>2
  <2>11. taken[0] + 1 \in DOMAIN Jobs(MethodOf(0)) /\ taken[0] + 1 > taken[0]
    BY <2>1, <2>6, <2>8, JobsType DEF TypeInv, TypeOK
  <2>12. Absent'
    <3> SUFFICES ASSUME NEW x \in Threads,
                        thread'[x].pc = "append" \/ (thread'[x].pc = "probe" /\ OneCall),
                        T(x)' \notin Loopback
                 PROVE  ~Listed(T(x))'
      BY <2>4 DEF Absent
    <3>1. CASE x = th
      <4>1. OneCall
        BY <2>2, <2>3, <3>1
      <4>2. T(x)' = Jobs(MethodOf(0))[taken[0] + 1]
        BY <2>1, <2>2, <2>3, <2>6, <3>1 DEF T, M, MethodOf, Jobs
      <4>3. phase = "discover"
        BY <2>1 DEF Open
      <4> HIDE DEF Listed
      <4>4. ~Listed(Jobs(MethodOf(0))[taken[0] + 1])
        BY <2>5, <2>11, <4>1, <4>2, <4>3 DEF Untaken
      <4> QED
        BY <2>1, <4>2, <4>4 DEF Listed
    <3>2. CASE x # th
      <4>1. thread'[x] = thread[x] /\ T(x)' = T(x)
        BY <2>1, <2>3, <3>2, SameTarget
      <4> QED
        BY <2>1, <2>5, <4>1 DEF Absent, Listed
    <3> QED
      BY <3>1, <3>2
  <2>13. Untaken'
    <3> DEFINE J == Jobs(MethodOf(0))
    <3> SUFFICES ASSUME OneCall, phase = "discover", NEW n \in DOMAIN J, n > taken'[0],
                        J[n] \notin Loopback
                 PROVE  ~Listed(J[n])
      BY <2>1, <2>4, <2>9 DEF Untaken, Listed
    <3>1. n \in Int
      BY JobsType DEF TypeInv, TypeOK
    <3>2. n > taken[0]
      BY <2>8, <3>1
    <3> QED
      BY <2>5, <3>2 DEF Untaken
  <2>14. Once'
    BY <2>1, <2>5, OnceNext
  <2> QED
    BY <2>10, <2>12, <2>13, <2>14
<1>3. ASSUME NEW th \in Threads,
             ProbeRaises(th) \/ AckRaises(th) \/ IcmpRecurses(th) \/ FinishNested(th)
      PROVE  OnceInv'
  <2>1. UNCHANGED <<scan, step, targetss>>
    BY <1>3, OtherSteps
  <2>2. (Guarded' <=> Guarded) /\ (OneCall' <=> OneCall)
    BY <2>1, SameGuard
  <2> SUFFICES ASSUME Guarded PROVE Once' /\ Distinct' /\ Absent' /\ Untaken'
    BY <2>2 DEF OnceInv
  <2>3. Once /\ Distinct /\ Absent /\ Untaken
    BY DEF OnceInv
  <2>4. ProbeRaises(th) \/ AckRaises(th)
    <3>1. ~IcmpRecurses(th)
      <4>1. IcmpRecurses(th) => M(th) = "icmp" /\ scan.recursively /\ thread[th].pc # "idle"
        BY RecursesMoves
      <4> QED
        BY <4>1, GuardedFlat DEF Guarded
    <3>2. ~FinishNested(th)
      <4>1. FinishNested(th) => thread[th].pc = "nested"
        BY DEF FinishNested, At
      <4> QED
        BY <4>1, GuardedFlat
    <3> QED
      BY <1>3, <3>1, <3>2
  <2>5. UNCHANGED taken /\ (phase' = "discover" => phase = "discover")
        /\ \A x \in Threads : thread'[x] = thread[x] \/ thread'[x].pc = "idle"
    <3>1. Fail(th) /\ UNCHANGED taken
      BY <2>4 DEF ProbeRaises, AckRaises
    <3> QED
      BY <1>1, <3>1 DEF Fail, Return
  <2>6. Distinct'
    BY <2>3, <2>5 DEF Distinct
  <2>7. Absent'
    <3> SUFFICES ASSUME NEW x \in Threads,
                        thread'[x].pc = "append" \/ (thread'[x].pc = "probe" /\ OneCall),
                        T(x)' \notin Loopback
                 PROVE  ~Listed(T(x))'
      BY <2>2 DEF Absent
    <3>1. thread'[x] = thread[x] /\ T(x)' = T(x)
      BY <2>1, <2>5, SameTarget
    <3> QED
      BY <2>1, <2>3, <3>1 DEF Absent, Listed
  <2>8. Untaken'
    BY <2>1, <2>2, <2>3, <2>5 DEF Untaken, Listed, MethodOf, Jobs
  <2>9. Once'
    BY <2>1, <2>3, OnceNext
  <2> QED
    BY <2>6, <2>7, <2>8, <2>9
<1>4. ASSUME Judge PROVE OnceInv'
  <2> DEFINE u == scan.targets[judged + 1]
  <2>1. /\ judged < Len(scan.targets) /\ scan.methods[step] = "ip" /\ Finished(0)
        /\ targetss' = targetss \/ (~Listed(u) /\ targetss' = Append(targetss, u))
        /\ UNCHANGED <<scan, step, taken, thread, phase>>
    BY <1>4 DEF Judge, ListIfAbsent, List
  <2>2. u \in Targets
    <3>1. scan.targets \in Seq(Targets) /\ judged \in 0..Len(scan.targets)
      BY ScanFields DEF TypeInv, TypeOK
    <3> QED
      BY <2>1, <3>1
  <2> HIDE DEF u
  <2>3. (Guarded' <=> Guarded) /\ (OneCall' <=> OneCall)
    BY <2>1, SameGuard
  <2> SUFFICES ASSUME Guarded PROVE Once' /\ Distinct' /\ Absent' /\ Untaken'
    BY <2>3 DEF OnceInv
  <2>4. Once'
    BY <2>1, <2>2, OnceNext DEF OnceInv
  <2>5. \A x \in Threads : thread'[x].pc = "idle"
    BY <2>1, AllIdle
  <2>6. ~OneCall'
    BY <2>1, <2>3, GuardedFlat DEF OneCall
  <2> QED
    BY <2>4, <2>5, <2>6 DEF Distinct, Absent, Untaken
<1>5. ASSUME FinishMethod PROVE OnceInv'
  <2>1. /\ UNCHANGED <<scan, targetss, thread>>
        /\ step = Len(scan.methods) => phase' = "done"
        /\ \A x \in Threads : thread'[x].pc = "idle"
    BY <1>5, AllIdle DEF FinishMethod, lists
  <2>2. Guarded' <=> Guarded
    BY <2>1, SameGuard
  <2> SUFFICES ASSUME Guarded PROVE Once' /\ Distinct' /\ Absent' /\ Untaken'
    BY <2>2 DEF OnceInv
  <2>3. Once'
    BY <2>1, OnceNext DEF OnceInv
  <2>4. phase' = "done"
    BY <2>1, GuardedFlat DEF Guarded
  <2> QED
    BY <2>1, <2>3, <2>4 DEF Distinct, Absent, Untaken
<1>6. CASE UNCHANGED vars
  <2> USE <1>6 DEF vars, lists, said
  <2>1. (Guarded' <=> Guarded) /\ (OneCall' <=> OneCall)
    BY SameGuard
  <2>2. Once' = Once /\ Distinct' = Distinct
    BY DEF Once, Distinct
  <2>3. Absent' = Absent /\ Untaken' = Untaken
    BY DEF Absent, Untaken, OneCall, Listed, T, M, MethodOf, Jobs
  <2> QED
    BY <2>1, <2>2, <2>3 DEF OnceInv
<1> QED
  BY <1>2, <1>3, <1>4, <1>5, <1>6, OrdinaryOnce, StepCases DEF Next, Main, Terminated

\* A discovery that looks at the list under the lock or in its only thread, or that has
\* one call per host, lists no host twice, for any number of hosts, ports and threads:
\* the append that comes after the look of an ACK or NDP ping, or without one in an ICMP
\* or ARP ping, finds the host absent all the same.
THEOREM HostListedOnceHolds == Spec => []HostListedOnce
<1>1. Init => OnceInv
  <2> SUFFICES ASSUME Init PROVE OnceInv
    OBVIOUS
  <2>1. targetss = <<>> /\ \A th \in Threads : thread[th].pc = "idle"
    BY DEF Init, Idle
  <2> QED
    BY <2>1 DEF OnceInv, Once, Distinct, Absent, Untaken, Listed
<1>2. OnceInv => HostListedOnce
  BY DEF OnceInv, Once, HostListedOnce
<1>3. Init => AnswerInv
  BY DEF Init, AnswerInv
<1> QED
  BY <1>1, <1>2, <1>3, InitType, StepType, AnswerStep, OnceStep, PTL DEF Spec

-----------------------------------------------------------------------------
(* Who is called up is not called down *)

Counted(t) == tally[t]["up"] > 0

\* What a step of a call does for the count of its target: it announces the host as it
\* counts it, or in a method that counts it next, or has counted it, or calls none down.
LEMMA OrdinaryUp ==
  ASSUME TypeInv, NEW th \in Threads, Ordinary(th)
  PROVE  /\ \/ announced' = announced
            \/ T(th) \in Loopback \/ tally'[T(th)]["up"] > 0
            \/ thread'[th].pc = "read" /\ M(th) \in {"icmp", "icmpv6"}
            \/ thread[th].pc = "check" \/ M(th) = "ndp"
         /\ thread[th].pc \in {"read", "write"} /\ M(th) # "ip" =>
              thread'[th].pc = "write" \/ tally'[T(th)]["up"] > 0
         /\ thread'[th].pc = "check" => tally'[T(th)]["up"] > 0
         /\ M(th) = "tcp" /\ scan.recursively => T(th) \in Loopback \/ tally'[T(th)]["up"] > 0
<1>1. /\ thread[th] \in Local /\ T(th) \in Targets /\ Place(M(th), thread[th])
      /\ thread \in [Threads -> Local] /\ thread[th].pc \notin {"idle", "nested"}
      /\ Idle.pc = "idle"
  BY OrdinaryMoves, BusyThread DEF TypeInv, TypeOK, Control, Local, Idle
<1>2. tally \in [Targets -> [Verdicts -> Nat]] /\ "up" \in Verdicts
  BY DEF TypeInv, TypeOK, Verdicts
<1>3. ASSUME Return(th) PROVE thread'[th].pc = "idle"
  BY <1>1, <1>3 DEF Return
<1>4. ASSUME NEW label, Goto(th, label) PROVE thread'[th].pc = label
  BY <1>1, <1>4 DEF Goto, Local
<1>5. ASSUME NEW n \in Nat, tally' = [tally EXCEPT ![T(th)]["up"] = n + 1]
      PROVE  tally'[T(th)]["up"] > 0
  <2> DEFINE k == n + 1
  <2>1. k > 0 /\ tally' = [tally EXCEPT ![T(th)]["up"] = k]
    BY <1>5
  <2> HIDE DEF k
  <2>2. tally'[T(th)]["up"] = k
    BY <1>1, <1>2, <2>1
  <2> QED
    BY <2>1, <2>2
<1>6. ASSUME RecordHostUp(T(th)) PROVE tally'[T(th)]["up"] > 0
  <2>1. tally[T(th)]["up"] \in Nat
    BY <1>1, <1>2
  <2> QED
    BY <1>5, <1>6, <2>1 DEF RecordHostUp, Count
<1> USE DEF said, lists
<1>7. CASE LoopbackUp(th)
  BY <1>3, <1>7 DEF LoopbackUp, At
<1>8. CASE TcpUp(th)
  BY <1>3, <1>6, <1>8 DEF TcpUp, Probing, At
<1>9. CASE TcpDown(th)
  BY <1>3, <1>9 DEF TcpDown, Probing, At
<1>10. CASE PingUp(th)
  BY <1>3, <1>6, <1>10 DEF PingUp, Probing, At
<1>11. CASE PingSilent(th)
  BY <1>3, <1>11 DEF PingSilent, Probing, At
<1>12. CASE IcmpUp(th)
  BY <1>4, <1>12 DEF IcmpUp, Probing, At
<1>13. CASE IcmpSilent(th)
  BY <1>3, <1>13 DEF IcmpSilent, Probing, At
<1>14. CASE AckUp(th)
  BY <1>4, <1>14 DEF AckUp, Probing, At
<1>15. CASE AckSilent(th)
  BY <1>3, <1>4, <1>15 DEF AckSilent, Probing, At
<1>16. CASE Check(th)
  BY <1>3, <1>4, <1>16 DEF Check, At
<1>17. CASE AppendHost(th)
  BY <1>3, <1>17 DEF AppendHost, At
<1>18. CASE ArpUp(th)
  BY <1>3, <1>18 DEF ArpUp, Probing, At
<1>19. CASE ArpSilent(th)
  BY <1>3, <1>19 DEF ArpSilent, Probing, At
<1>20. CASE NdpUp(th)
  BY <1>3, <1>4, <1>20 DEF NdpUp, Probing, At
<1>21. CASE NdpSilent(th)
  BY <1>3, <1>4, <1>21 DEF NdpSilent, Probing, At
<1>22. CASE NdpSkips(th)
  BY <1>3, <1>22 DEF NdpSkips, Probing, At
<1>23. CASE IpProbe(th)
  <2>1. PICK v \in Verdicts : thread' = [thread EXCEPT ![th].pc = "read", ![th].verdict = v]
    BY <1>23 DEF IpProbe
  <2>2. thread'[th] = [thread[th] EXCEPT !.pc = "read", !.verdict = v]
    BY <1>1, <2>1
  <2>3. thread'[th].pc = "read"
    BY <1>1, <2>2 DEF Local
  <2> QED
    BY <1>23, <2>3 DEF IpProbe, Probing, At
<1>24. CASE ReadCount(th)
  <2> DEFINE n == tally[T(th)][thread[th].verdict]
  <2>1. /\ thread' = [thread EXCEPT ![th].pc = "write", ![th].seen = n]
        /\ thread[th].pc = "read" /\ UNCHANGED announced
    BY <1>24 DEF ReadCount
  <2> HIDE DEF n
  <2>2. thread'[th] = [thread[th] EXCEPT !.pc = "write", !.seen = n]
    BY <1>1, <2>1
  <2>3. thread'[th].pc = "write"
    BY <1>1, <2>2 DEF Local
  <2> QED
    BY <1>1, <2>1, <2>3 DEF Place
<1>25. CASE WriteCount(th)
  <2>1. /\ thread[th].pc = "write" /\ UNCHANGED announced
        /\ tally' = [tally EXCEPT ![T(th)][thread[th].verdict] = thread[th].seen + 1]
    BY <1>25 DEF WriteCount, Count
  <2>2. ASSUME M(th) # "ip" PROVE tally'[T(th)]["up"] > 0
    <3>1. thread[th].verdict = "up" /\ thread[th].seen \in Nat
      BY <1>1, <2>2 DEF Place, Local
    <3> QED
      BY <1>5, <2>1, <3>1
  <2>3. thread'[th].pc = "check" => M(th) = "ack"
    <3>1. Place(M(th), thread'[th])
      BY <1>25, OrdinaryMoves DEF Ordinary, Moves
    <3> QED
      BY <3>1 DEF Place
  <2>4. M(th) # "tcp"
    BY <1>1, <2>1 DEF Place
  <2> QED
    BY <2>1, <2>2, <2>3, <2>4
<1> QED
  BY <1>7, <1>8, <1>9, <1>10, <1>11, <1>12, <1>13, <1>14, <1>15, <1>16, <1>17, <1>18, <1>19,
     <1>20, <1>21, <1>22, <1>23, <1>24, <1>25 DEF Ordinary

\* An ICMP ping has called the host up and is about to count it.
Counting(t) == \E th \in Threads :
  /\ th[1] = 0 /\ thread[th].pc \in {"read", "write"} /\ M(th) \in {"icmp", "icmpv6"}
  /\ T(th) = t

\* The one method of the discovery calls no host down.
Silent == scan.methods[1] \in {"ndp", "ip"}

\* Pool w has seen to the first jobs it took: nobody calls a host down that it counted.
Served(w) == \A n \in DOMAIN Jobs("tcp") :
  /\ n <= taken[w]
  /\ Jobs("tcp")[n] \notin Loopback
  => Counted(Jobs("tcp")[n]) \/ \E x \in Workers(w) : thread[x].job = n

UpInv ==
  /\ phase = "discover" => \A t \in announced \ Loopback : Counted(t) \/ Counting(t) \/ Silent
  /\ \A th \in Threads : thread[th].pc = "check" => Counted(T(th))
  /\ ~scan.raise => \A th \in Threads : thread[th].pc = "nested" => Served(th[2])

\* A nested thread belongs to the pool of the method, which is ICMP.
LEMMA NestedThread ==
  ASSUME TypeInv, NEW th \in Threads, thread[th].pc = "nested"
  PROVE  th[1] = 0 /\ M(th) = "icmp" /\ scan.methods[step] = "icmp" /\ scan.recursively
  BY DEF TypeInv, Control, Place, M, MethodOf

LEMMA OrdinaryUpInv ==
  ASSUME TypeInv, UpInv, NEW th \in Threads, Ordinary(th)
  PROVE  UpInv'
<1>1. /\ UNCHANGED <<scan, step, taken, phase>> /\ T(th) \in Targets /\ scan \in Discoveries
      /\ thread[th].pc \notin {"idle", "nested"} /\ Moves(th) /\ thread'[th].pc # "nested"
  BY OrdinaryMoves, BusyThread DEF TypeInv, TypeOK
<1>2. \A t \in Targets : Counted(t) => Counted(t)'
  BY OrdinaryAnswered DEF Counted, Verdicts
<1>3. ASSUME NEW x \in Threads, x # th
      PROVE  thread'[x] = thread[x] /\ T(x)' = T(x) /\ M(x)' = M(x)
  <2>1. thread'[x] = thread[x]
    BY <1>1, <1>3 DEF Moves
  <2> QED
    BY <1>1, <2>1, SameTarget, SameScan
<1>4. thread'[th].pc # "idle" => T(th)' = T(th)
  BY <1>1, SameTarget DEF Moves
<1>5. M(th)' = M(th) /\ (Silent => Silent')
  BY <1>1, SameScan DEF Silent
<1>6. \A t \in Targets : t = T(th) /\ tally'[T(th)]["up"] > 0 => Counted(t)'
  BY DEF Counted
<1>7. M(th) \in {"icmp", "icmpv6", "ndp"} => th[1] = 0 /\ scan.methods[step] = M(th)
  BY DEF M, MethodOf
<1>8. ASSUME phase = "discover", NEW t \in announced' \ Loopback
      PROVE  Counted(t)' \/ Counting(t)' \/ Silent'
  <2>1. t \in Targets
    BY OrdinaryLists DEF TypeInv, TypeOK
  <2>2. ASSUME thread'[th].pc \in {"read", "write"}, M(th) \in {"icmp", "icmpv6"}, T(th) = t
        PROVE  Counting(t)'
    <3>1. thread'[th].pc # "idle"
      BY <2>2
    <3> QED
      BY <1>4, <1>5, <1>7, <2>2, <3>1 DEF Counting
  <2>3. CASE t \in announced
    <3>1. CASE Counted(t) \/ Silent
      BY <1>2, <1>5, <2>1, <3>1
    <3>2. CASE Counting(t)
      <4>1. PICK x \in Threads :
              /\ x[1] = 0 /\ thread[x].pc \in {"read", "write"} /\ M(x) \in {"icmp", "icmpv6"}
              /\ T(x) = t
        BY <3>2 DEF Counting
      <4>2. CASE x # th
        BY <1>3, <4>1, <4>2 DEF Counting
      <4>3. CASE x = th
        BY <1>6, <2>1, <2>2, <4>1, <4>3, OrdinaryUp
      <4> QED
        BY <4>2, <4>3
    <3> QED
      BY <1>8, <2>3, <3>1, <3>2 DEF UpInv
  <2>4. CASE t \notin announced
    <3>1. t = T(th) /\ announced' # announced
      BY <1>8, <2>4, OrdinaryLists
    <3>2. CASE tally'[T(th)]["up"] > 0
      BY <1>6, <2>1, <3>1, <3>2
    <3>3. CASE thread'[th].pc = "read" /\ M(th) \in {"icmp", "icmpv6"}
      BY <2>2, <3>1, <3>3
    <3>4. CASE thread[th].pc = "check"
      <4>1. Counted(T(th))
        BY <3>4 DEF UpInv
      <4> QED
        BY <1>2, <2>1, <3>1, <4>1
    <3>5. CASE M(th) = "ndp"
      <4>1. step = 1
        BY <1>1, <1>7, <3>5, MethodsType DEF TypeInv, TypeOK
      <4> QED
        BY <1>5, <1>7, <3>5, <4>1 DEF Silent
    <3> QED
      BY <1>8, <3>1, <3>2, <3>3, <3>4, <3>5, OrdinaryUp
  <2> QED
    BY <2>3, <2>4
<1>9. ASSUME NEW x \in Threads, thread'[x].pc = "check"
      PROVE  Counted(T(x))'
  <2>1. CASE x # th
    <3>1. Counted(T(x)) /\ T(x) \in Targets
      BY <1>3, <1>9, <2>1, BusyThread DEF UpInv
    <3>2. T(x)' = T(x)
      BY <1>3, <2>1
    <3>3. \A t \in Targets : Counted(t) => tally'[t]["up"] > 0
      BY <1>2 DEF Counted
    <3> QED
      BY <3>1, <3>2, <3>3 DEF Counted
  <2>2. CASE x = th
    <3>1. T(th)' = T(th) /\ tally'[T(th)]["up"] > 0
      BY <1>4, <1>9, <2>2, OrdinaryUp
    <3> QED
      BY <2>2, <3>1 DEF Counted
  <2> QED
    BY <2>1, <2>2
<1>10. ASSUME ~scan.raise, NEW x \in Threads, thread'[x].pc = "nested"
       PROVE  Served(x[2])'
  <2>1. x # th /\ thread[x].pc = "nested" /\ scan.recursively /\ x[2] # 0
    BY <1>1, <1>3, <1>10, NestedThread, Places
  <2>2. Jobs("tcp")' = Jobs("tcp")
    BY <1>1 DEF Jobs
  <2> SUFFICES ASSUME NEW n \in DOMAIN Jobs("tcp"), n <= taken[x[2]],
                      Jobs("tcp")[n] \notin Loopback
               PROVE  \/ tally'[Jobs("tcp")[n]]["up"] > 0
                      \/ \E y \in Workers(x[2]) : thread'[y].job = n
    BY <1>1, <2>2 DEF Served, Counted, Workers
  <2>3. Jobs("tcp")[n] \in Targets
    BY <1>1, JobsType
  <2>4. CASE Counted(Jobs("tcp")[n])
    BY <1>2, <2>3, <2>4 DEF Counted
  <2>5. CASE \E y \in Workers(x[2]) : thread[y].job = n
    <3>1. PICK y \in Workers(x[2]) : thread[y].job = n
      BY <2>5
    <3>2. y \in Threads /\ y[1] = x[2]
      BY <3>1 DEF Workers
    <3>3. CASE y # th
      BY <1>3, <3>1, <3>2, <3>3
    <3>4. CASE y = th
      <4>1. M(th) = "tcp" /\ T(th) = Jobs("tcp")[n]
        BY <2>1, <3>1, <3>2, <3>4 DEF M, MethodOf, T
      <4> QED
        BY <2>1, <4>1, OrdinaryUp
    <3> QED
      BY <3>3, <3>4
  <2> QED
    BY <1>10, <2>1, <2>4, <2>5 DEF UpInv, Served
<1> QED
  BY <1>1, <1>8, <1>9, <1>10 DEF UpInv

LEMMA UpStep == TypeInv /\ UpInv /\ [Next]_vars => UpInv'
<1> SUFFICES ASSUME TypeInv, UpInv, [Next]_vars PROVE UpInv'
  OBVIOUS
<1>1. thread \in [Threads -> Local] /\ Idle.pc = "idle" /\ scan \in Discoveries
  BY DEF TypeInv, TypeOK, Local, Idle
<1>2. ASSUME UNCHANGED <<scan, step, tally, announced>>, NEW th \in Threads,
             \A x \in Threads \ {th} : thread'[x] = thread[x],
             thread'[th].pc \in {"idle", "probe", "nested"},
             thread[th].pc \notin {"read", "write"}, phase' = phase
      PROVE  /\ phase' = "discover" => \A t \in announced' \ Loopback :
                                         Counted(t)' \/ Counting(t)' \/ Silent'
             /\ \A x \in Threads : thread'[x].pc = "check" => Counted(T(x))'
  <2>1. \A x \in Threads \ {th} : T(x)' = T(x) /\ M(x)' = M(x)
    BY <1>2, SameTarget, SameScan
  <2>2. \A t : Counting(t) => Counting(t)'
    BY <1>2, <2>1 DEF Counting
  <2> QED
    BY <1>2, <2>1, <2>2 DEF UpInv, Counted, Silent
<1>3. ASSUME NEW th \in Threads, Ordinary(th) PROVE UpInv'
  BY <1>3, OrdinaryUpInv
<1>4. ASSUME NEW th \in Threads, Take(th) PROVE UpInv'
  <2> DEFINE p == th[1]
             r == [Idle EXCEPT !.job = taken[p] + 1, !.pc = "probe"]
  <2>1. /\ p \in Pools /\ thread[th].pc = "idle"
        /\ UNCHANGED <<scan, step, tally, announced, phase>>
        /\ taken' = [taken EXCEPT ![p] = @ + 1]
        /\ thread' = [thread EXCEPT ![th] = r]
    BY <1>4, Places DEF Take, lists, said
  <2>2. r.pc = "probe" /\ r.job = taken[p] + 1
    BY DEF Idle
  <2> HIDE DEF r
  <2>3. thread'[th] = r /\ \A x \in Threads \ {th} : thread'[x] = thread[x]
    BY <1>1, <2>1
  <2>4. MostJobs \in Nat /\ taken \in [Pools -> 0..MostJobs]
    BY ScanFields DEF TypeInv, TypeOK, MostJobs
  <2>5. taken'[p] = taken[p] + 1 /\ \A q \in Pools \ {p} : taken'[q] = taken[q]
    BY <2>1, <2>4
  <2>6. ASSUME ~scan.raise, NEW x \in Threads, thread'[x].pc = "nested"
        PROVE  Served(x[2])'
    <3>1. x # th /\ thread[x].pc = "nested" /\ x[2] \in Pools
      BY <2>2, <2>3, <2>6, Places
    <3>2. Jobs("tcp")' = Jobs("tcp")
      BY <2>1 DEF Jobs
    <3> SUFFICES ASSUME NEW n \in DOMAIN Jobs("tcp"), n <= taken'[x[2]],
                        Jobs("tcp")[n] \notin Loopback
                 PROVE  Counted(Jobs("tcp")[n]) \/ \E y \in Workers(x[2]) : thread'[y].job = n
      BY <2>1, <3>2 DEF Served, Counted, Workers
    <3>3. n \in Nat \ {0}
      BY <1>1, JobsType
    <3>4. CASE n <= taken[x[2]]
      <4>1. Counted(Jobs("tcp")[n]) \/ \E y \in Workers(x[2]) : thread[y].job = n
        BY <2>6, <3>1, <3>4 DEF UpInv, Served
      <4>2. ASSUME NEW y \in Workers(x[2]), thread[y].job = n PROVE thread'[y].job = n
        <5>1. y \in Threads /\ y # th
          BY <2>1, <3>3, <4>2 DEF Workers, TypeInv, TypeOK
        <5> QED
          BY <2>3, <4>2, <5>1
      <4> QED
        BY <4>1, <4>2
    <3>5. CASE ~(n <= taken[x[2]])
      <4>1. x[2] = p /\ n = taken[p] + 1
        BY <2>4, <2>5, <3>1, <3>3, <3>5
      <4> QED
        BY <2>2, <2>3, <4>1 DEF Workers
    <3> QED
      BY <3>4, <3>5
  <2> QED
    BY <1>2, <2>1, <2>2, <2>3, <2>6 DEF UpInv
<1>5. ASSUME NEW th \in Threads, ProbeRaises(th) \/ AckRaises(th) PROVE UpInv'
  <2>1. /\ Fail(th) /\ UNCHANGED <<scan, step, tally, announced>>
        /\ thread[th].pc \in {"probe", "check"}
    BY <1>5 DEF ProbeRaises, AckRaises, Probing, At, lists, said
  <2>2. ~scan.raise => \A x \in Threads : thread'[x].pc # "nested"
    <3> SUFFICES ASSUME ~scan.raise, NEW x \in Threads, thread'[x].pc = "nested" PROVE FALSE
      OBVIOUS
    <3>1. M(th) = "ack"
      BY <1>5 DEF ProbeRaises, AckRaises, Probing, At
    <3>2. thread[x].pc = "nested"
      BY <1>1, <2>1 DEF Fail, Return
    <3> QED
      BY <3>1, <3>2, NestedThread DEF M, MethodOf
  <2>3. CASE Inline
    <3>1. phase' # "discover" /\ \A x \in Threads : thread'[x].pc = "idle"
      BY <1>1, <2>1, <2>3 DEF Fail
    <3> QED
      BY <3>1 DEF UpInv
  <2>4. CASE ~Inline
    <3>1. phase' = phase /\ thread'[th].pc = "idle" /\ \A x \in Threads \ {th} : thread'[x] = thread[x]
      BY <1>1, <2>1, <2>4 DEF Fail, Return
    <3> QED
      BY <1>2, <2>1, <2>2, <3>1 DEF UpInv
  <2> QED
    BY <2>3, <2>4
<1>6. ASSUME NEW th \in Threads, IcmpRecurses(th) \/ FinishNested(th) PROVE UpInv'
  <2>1. /\ UNCHANGED <<scan, step, tally, announced, phase>> /\ th[1] = 0 /\ M(th) = "icmp"
        /\ thread[th].pc \in {"probe", "nested"} /\ thread'[th].pc \in {"idle", "nested"}
        /\ \A x \in Threads \ {th} : thread'[x] = thread[x]
    <3>1. CASE IcmpRecurses(th)
      BY <3>1, RecursesMoves DEF IcmpRecurses, Moves, lists, said
    <3>2. CASE FinishNested(th)
      BY <1>1, <3>2 DEF FinishNested, At, Return, lists
    <3> QED
      BY <1>6, <3>1, <3>2
  <2>2. /\ \A q \in Pools \ {th[2]} : taken'[q] = taken[q]
        /\ thread'[th].pc = "nested" => taken'[th[2]] = 0
    <3>1. CASE IcmpRecurses(th)
      BY <3>1, Places DEF IcmpRecurses, TypeInv, TypeOK
    <3>2. CASE FinishNested(th)
      BY <1>1, <3>2 DEF FinishNested, Return
    <3> QED
      BY <1>6, <3>1, <3>2
  <2>3. ASSUME ~scan.raise, NEW x \in Threads, thread'[x].pc = "nested"
        PROVE  Served(x[2])'
    <3>1. Jobs("tcp")' = Jobs("tcp") /\ \A n \in DOMAIN Jobs("tcp") : n \in Nat \ {0}
      BY <1>1, <2>1, JobsType DEF Jobs
    <3>2. CASE x = th
      <4>1. taken'[x[2]] = 0
        BY <2>2, <2>3, <3>2
      <4> QED
        BY <3>1, <4>1 DEF Served
    <3>3. CASE x # th
      <4>1. thread[x].pc = "nested" /\ x[1] = 0
        BY <2>1, <2>3, <3>3, NestedThread
      <4>2. x[2] # th[2] /\ x[2] \in Pools /\ x[2] # 0
        BY <2>1, <3>3, <4>1, Places
      <4>3. \A y \in Workers(x[2]) : thread'[y] = thread[y]
        BY <2>1, <4>2 DEF Workers
      <4>4. Workers(x[2])' = Workers(x[2])
        BY DEF Workers
      <4>5. Served(x[2])
        BY <2>3, <4>1 DEF UpInv
      <4> QED
        BY <2>1, <2>2, <3>1, <4>2, <4>3, <4>5 DEF Served, Counted, Workers
    <3> QED
      BY <3>2, <3>3
  <2> QED
    BY <1>2, <2>1, <2>3 DEF UpInv
<1>7. ASSUME Judge PROVE UpInv'
  <2>1. scan.methods[step] = "ip" /\ UNCHANGED <<scan, thread>>
        /\ \A x \in Threads : thread[x].pc = "idle"
    BY <1>7, AllIdle DEF Judge
  <2>2. Silent'
    <3>1. step = 1
      BY <1>1, <2>1, MethodsType DEF TypeInv, TypeOK
    <3> QED
      BY <2>1, <3>1 DEF Silent
  <2> QED
    BY <2>1, <2>2 DEF UpInv
<1>8. ASSUME FinishMethod PROVE UpInv'
  <2>1. /\ UNCHANGED <<scan, tally, thread, announced>> /\ phase = "discover"
        /\ \A x \in Threads : thread[x].pc = "idle"
    BY <1>8, AllIdle DEF FinishMethod, Finished, Open, lists
  <2>2. \A t : ~Counting(t)
    BY <2>1 DEF Counting
  <2> QED
    BY <2>1, <2>2 DEF UpInv, Counted, Silent
<1>9. CASE UNCHANGED vars
  <2> USE <1>9 DEF vars, lists, said
  <2>1. \A t : Counted(t)' = Counted(t) /\ Counting(t)' = Counting(t)
    BY DEF Counted, Counting, T, M, MethodOf, Jobs
  <2>2. \A w : Served(w)' = Served(w)
    BY DEF Served, Counted, Workers, Jobs
  <2>3. \A x : Counted(T(x))' = Counted(T(x))
    BY DEF Counted, T, M, MethodOf, Jobs
  <2> QED
    BY <2>1, <2>2, <2>3 DEF UpInv, Silent
<1> QED
  BY <1>3, <1>4, <1>5, <1>6, <1>7, <1>8, <1>9, StepCases DEF Next, Main, Terminated

LEMMA SilentStep == TypeInv /\ Silent => scan.methods[step] \in {"ndp", "ip"}
<1> SUFFICES ASSUME TypeInv, Silent PROVE scan.methods[step] \in {"ndp", "ip"}
  OBVIOUS
<1>1. Len(scan.methods) \in Nat \ {0} /\ scan.methods \in Seq(Methods)
  BY MethodsType DEF TypeInv, TypeOK
<1>2. 1 \in DOMAIN scan.methods
  BY <1>1
<1>3. Len(scan.methods) = 1
  BY <1>2, MethodsType DEF TypeInv, TypeOK, Silent
<1>4. step = 1
  BY <1>1, <1>3 DEF TypeInv, TypeOK
<1> QED
  BY <1>4 DEF Silent

\* When a method is over, every host it called up is counted.
LEMMA FinishShows ==
  ASSUME TypeInv, UpInv, FinishMethod, NEW t \in announced \ Loopback, t \notin shown_down
  PROVE  t \notin shown_down'
<1>1. phase = "discover" /\ \A x \in Threads : thread[x].pc = "idle"
  BY AllIdle DEF FinishMethod, Finished, Open
<1>2. CASE Counted(t)
  BY <1>2 DEF FinishMethod, ShowDown, Counted
<1>3. CASE Silent
  BY <1>3, SilentStep DEF FinishMethod, PerPort
<1>4. ~Counting(t)
  BY <1>1 DEF Counting
<1> QED
  BY <1>1, <1>2, <1>3, <1>4 DEF UpInv

\* So it is when a nested discovery is over: either no call of it was lost, and it counted
\* every host itself, or its worker is the only thread of the ICMP ping.
LEMMA FinishNestedShows ==
  ASSUME TypeInv, UpInv, NEW th \in Threads, FinishNested(th), ~CallsGetLost,
         NEW t \in announced \ Loopback, t \notin shown_down
  PROVE  t \notin shown_down'
<1>1. /\ thread[th].pc = "nested" /\ Finished(th[2]) /\ ShowDown /\ th[2] # 0 /\ th[2] \in Pools
      /\ scan \in Discoveries /\ t \in Targets
  BY Places DEF FinishNested, At, TypeInv, TypeOK
<1>2. /\ phase = "discover" /\ taken[th[2]] = Len(Jobs("tcp"))
      /\ \A x \in Workers(th[2]) : thread[x].pc = "idle"
  BY <1>1 DEF Finished, Open, MethodOf
<1>3. scan.methods[step] = "icmp" /\ scan.recursively /\ th[1] = 0
  BY <1>1, NestedThread
<1>4. ~scan.raise \/ Inline
  BY <1>3 DEF CallsGetLost, TypeInv, TypeOK
<1>5. SUFFICES ASSUME \E i \in DOMAIN scan.targets : scan.targets[i] = t PROVE Counted(t)
  BY <1>1 DEF ShowDown, Counted
<1>6. CASE ~scan.raise
  <2>1. PICK n \in DOMAIN Jobs("tcp") : Jobs("tcp")[n] = t
    <3>1. \A i \in DOMAIN scan.targets : \E n \in DOMAIN Jobs("tcp") : Jobs("tcp")[n] = scan.targets[i]
      BY <1>1, JobsType
    <3> QED
      BY <1>5, <3>1
  <2>2. n \in Nat \ {0} /\ n <= taken[th[2]]
    BY <1>1, <1>2, JobsType
  <2>3. \A x \in Workers(th[2]) : thread[x].job # n
    BY <1>2, <2>2 DEF Workers, TypeInv, TypeOK
  <2> QED
    BY <1>1, <1>6, <2>1, <2>2, <2>3 DEF UpInv, Served
<1>7. CASE Inline
  <2>1. ~Counting(t)
    <3> SUFFICES ASSUME NEW x \in Threads, x[1] = 0, thread[x].pc \in {"read", "write"} PROVE FALSE
      BY DEF Counting
    <3>1. x[2] = th[2]
      <4>1. x[2] <= 1 /\ th[2] <= 1 /\ x[2] \in 1..MaxThreads /\ th[2] \in 1..MaxThreads
        BY <1>1, <1>7, Places DEF TypeInv, Control, Inline
      <4> QED
        BY <4>1
    <3>2. x = th
      BY <1>3, <3>1, Places
    <3> QED
      BY <1>1, <3>2
  <2>2. ~Silent
    BY <1>3, SilentStep
  <2> QED
    BY <1>2, <2>1, <2>2 DEF UpInv
<1> QED
  BY <1>4, <1>6, <1>7

\* A host called up is not called down afterwards, for any number of threads and nested
\* discoveries: threads that count the same host lose increments, but never all of them.
THEOREM UpIsNotShownDownHolds == Spec => UpIsNotShownDown
<1> DEFINE Kept == ~CallsGetLost => \A t \in Targets \ Loopback :
                     t \in announced /\ t \notin shown_down => t \notin shown_down'
<1>1. Init => UpInv
  <2> SUFFICES ASSUME Init PROVE UpInv
    OBVIOUS
  <2>1. announced = {} /\ \A th \in Threads : thread[th].pc = "idle"
    BY DEF Init, Idle
  <2> QED
    BY <2>1 DEF UpInv
<1>2. TypeInv /\ UpInv /\ [Next]_vars => [Kept]_vars
  <2> SUFFICES ASSUME TypeInv, UpInv, [Next]_vars, ~CallsGetLost, NEW t \in announced \ Loopback,
                      t \notin shown_down
               PROVE  t \notin shown_down'
    OBVIOUS
  <2>1. ASSUME NEW th \in Threads, Step(th) PROVE t \notin shown_down'
    <3>1. CASE Take(th) \/ ProbeRaises(th) \/ AckRaises(th) \/ IcmpRecurses(th)
      BY <3>1 DEF Take, ProbeRaises, AckRaises, IcmpRecurses, said
    <3>2. CASE Ordinary(th)
      BY <3>2, OrdinaryMoves
    <3>3. CASE FinishNested(th)
      BY <3>3, FinishNestedShows
    <3> QED
      BY <2>1, <3>1, <3>2, <3>3, StepCases
  <2>2. CASE Judge \/ UNCHANGED vars
    BY <2>2 DEF Judge, vars, said
  <2>3. CASE FinishMethod
    BY <2>3, FinishShows
  <2> QED
    BY <2>1, <2>2, <2>3 DEF Next, Main, Terminated
<1> QED
  BY <1>1, <1>2, InitType, StepType, UpStep, PTL DEF Spec, UpIsNotShownDown
=============================================================================
