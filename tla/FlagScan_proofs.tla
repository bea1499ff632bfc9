--------------------------- MODULE FlagScan_proofs ---------------------------
(***************************************************************************)
(* Theorems about FlagScan, for any set of scans, addresses, ports, banner *)
(* texts and any number of threads.  A cookie scan that may raise writes a *)
(* service into a list of ports (SCTP_cookie_echo_scan does), so that its  *)
(* records are no records: what is said of types holds for the others.     *)
(***************************************************************************)
EXTENDS FlagScan, TargetResults_proofs

\* The scans whose lists of ports hold ports only.
PortsOnly == scan.kind = "cookie" => ~scan.raise

-----------------------------------------------------------------------------
(* The jobs of a scan *)

LEMMA JobsType ==
  ASSUME scan \in ScanType
  PROVE  /\ Len(Jobs) \in Nat
         /\ DOMAIN Jobs = 1..Len(Jobs)
         /\ \A n \in DOMAIN Jobs : /\ Jobs[n][1] \in Targets /\ Jobs[n][2] \in Ports
                                   /\ Jobs[n] = <<Jobs[n][1], Jobs[n][2]>>
<1> DEFINE L == Len(scan.targetss)
           M == Len(scan.ports_to_scan)
<1>1. scan.targetss \in Seq(Targets) /\ scan.ports_to_scan \in Seq(Ports)
  BY DEF ScanType
<1>2. L \in Nat /\ M \in Nat /\ L * M \in Nat
  <2>1. L \in Nat /\ M \in Nat
    BY <1>1
  <2> HIDE DEF L, M
  <2> QED
    BY <2>1
<1>3. Jobs = [ n \in 1..(L * M) |-> << scan.targetss[((n - 1) \div M) + 1],
                                       scan.ports_to_scan[((n - 1) % M) + 1] >> ]
  BY DEF Jobs
<1> HIDE DEF L, M
<1>4. Len(Jobs) = L * M /\ DOMAIN Jobs = 1..(L * M)
  BY <1>2, <1>3
<1>5. ASSUME NEW n \in 1..(L * M)
      PROVE  /\ Jobs[n][1] \in Targets /\ Jobs[n][2] \in Ports
             /\ Jobs[n] = <<Jobs[n][1], Jobs[n][2]>>
  <2>1. ((n - 1) \div M) + 1 \in 1..L /\ ((n - 1) % M) + 1 \in 1..M
    BY <1>2, LoopPosition
  <2>2. \A i \in 1..L : scan.targetss[i] \in Targets
    BY <1>1 DEF L
  <2>3. \A i \in 1..M : scan.ports_to_scan[i] \in Ports
    BY <1>1 DEF M
  <2> QED
    BY <1>3, <2>1, <2>2, <2>3
<1> QED
  BY <1>2, <1>4, <1>5

LEMMA JobsFixed ==
  ASSUME scan' = scan
  PROVE  Jobs' = Jobs /\ (\A n : Sole(n)' <=> Sole(n)) /\ (Apart' <=> Apart)
<1>1. Jobs' = Jobs
  BY DEF Jobs
<1> QED
  BY <1>1 DEF Sole, Apart

LEMMA BusyWorker ==
  ASSUME TypeOK, NEW w \in Workers, ~On(w, "idle")
  PROVE  /\ scan \in ScanType
         /\ worker[w].job \in DOMAIN Jobs /\ worker[w].job \in 1..taken
         /\ T(w) \in Targets /\ P(w) \in Ports
         /\ target_results[T(w)] \in Results
         /\ worker[w].bucket \in Buckets
<1>1. scan \in ScanType
  BY ScanAssumption DEF TypeOK
<1>2. worker[w].job \in 0..taken /\ worker[w].job # 0 /\ worker[w].bucket \in Buckets
  BY DEF TypeOK
<1>3. worker[w].job \in 1..Len(Jobs) /\ worker[w].job \in 1..taken
  BY <1>1, <1>2, JobsType DEF TypeOK
<1>4. T(w) \in Targets /\ P(w) \in Ports
  BY <1>1, <1>3, JobsType DEF T, P
<1> QED
  BY <1>1, <1>2, <1>3, <1>4, JobsType DEF TypeOK

-----------------------------------------------------------------------------
(* What a busy worker does *)

\* The lists of ports of the buckets B of the target of w gain the port of w, the lists of
\* services of the buckets S a service found for that port; no other list changes.
Lists(w, B, S) ==
  /\ target_results' \in [Targets -> Results]
  /\ \A t \in Targets \ {T(w)} : target_results'[t] = target_results[t]
  /\ \A c \in Buckets :
       /\ target_results'[T(w)].ports[c] =
            IF c \in B THEN Append(target_results[T(w)].ports[c], P(w))
                       ELSE target_results[T(w)].ports[c]
       /\ IF c \in S
          THEN \E v \in Services :
                 /\ v.port = P(w)
                 /\ target_results'[T(w)].services[c] =
                      Append(target_results[T(w)].services[c], v)
          ELSE target_results'[T(w)].services[c] = target_results[T(w)].services[c]

Leaves(w) == worker'[w] = Idle
Goes(w, label, b) ==
  \E n \in 0 .. scan.max_retries - 1 :
    worker'[w] = [job |-> worker[w].job, pc |-> label, attempt |-> n, bucket |-> b]

\* The four things a busy worker does: it appends its port and goes to read a banner,
\* appends the service it owes, appends both at once, or leaves the lists alone.
AppendsPort(w) ==
  /\ On(w, "probe") /\ scan.kind # "ipproto"
  /\ \E b \in Buckets : Lists(w, {b}, {}) /\ Goes(w, "name", b)
AppendsService(w) ==
  /\ On(w, "name")
  /\ Lists(w, {}, {worker[w].bucket})
  /\ Leaves(w)
AppendsBoth(w) ==
  /\ On(w, "probe") \/ On(w, "give_up")
  /\ \E b \in Buckets : Lists(w, {b}, {b})
  /\ Leaves(w)
AppendsNothing(w) ==
  /\ UNCHANGED target_results
  /\ \/ /\ On(w, "probe") /\ scan.raise
        /\ \E l \in {"probe", "give_up"} : Goes(w, l, worker[w].bucket)
     \/ /\ On(w, "give_up")
        /\ P(w) \in Recorded(target_results[T(w)], "open_ports")
        /\ Leaves(w)

WorkStep(w) ==
  /\ ~On(w, "idle")
  /\ UNCHANGED <<scan, taken, phase, reported>>
  /\ \A v \in Workers \ {w} : worker'[v] = worker[v]
  /\ worker' = [worker EXCEPT ![w] = worker'[w]]
  /\ AppendsPort(w) \/ AppendsService(w) \/ AppendsBoth(w) \/ AppendsNothing(w)

\* Only a scan that may raise gives up.
Raised == \A w \in Workers : On(w, "give_up") => scan.raise

LEMMA RecordBothLists ==
  ASSUME TypeOK, NEW w \in Workers, ~On(w, "idle"), NEW b \in Buckets, RecordBoth(w, b)
  PROVE  Lists(w, {b}, {b})
<1> DEFINE r == target_results[T(w)]
           r1 == AppendPort(r, b, P(w))
           r2 == AppendService(r1, b, Table(P(w)))
<1>1. T(w) \in Targets /\ P(w) \in Ports /\ r \in Results
  BY BusyWorker
<1>2. Table(P(w)) \in Services /\ Table(P(w)).port = P(w)
  BY <1>1, TableIsService
<1> HIDE DEF r
<1>3. /\ r1 \in Results /\ r1.services = r.services
      /\ \A c \in Buckets : r1.ports[c] = IF c = b THEN Append(r.ports[c], P(w)) ELSE r.ports[c]
  BY <1>1, AppendPortFields
<1> HIDE DEF r1
<1>4. /\ r2 \in Results /\ r2.ports = r1.ports
      /\ \A c \in Buckets : r2.services[c] =
           IF c = b THEN Append(r1.services[c], Table(P(w))) ELSE r1.services[c]
  BY <1>2, <1>3, AppendServiceFields
<1>5. target_results' = [target_results EXCEPT ![T(w)] = r2]
  BY DEF RecordBoth, Write, r, r1
<1> HIDE DEF r2
<1>6. target_results' \in [Targets -> Results] /\ target_results'[T(w)] = r2
      /\ \A t \in Targets \ {T(w)} : target_results'[t] = target_results[t]
  BY <1>1, <1>4, <1>5 DEF TypeOK
<1> QED
  BY <1>2, <1>3, <1>4, <1>6 DEF Lists, r

LEMMA RecordPortLists ==
  ASSUME TypeOK, NEW w \in Workers, ~On(w, "idle"), NEW b \in Buckets,
         Write(T(w), AppendPort(target_results[T(w)], b, P(w)))
  PROVE  Lists(w, {b}, {})
<1> DEFINE r == target_results[T(w)]
           r1 == AppendPort(r, b, P(w))
<1>1. T(w) \in Targets /\ P(w) \in Ports /\ r \in Results
  BY BusyWorker
<1> HIDE DEF r
<1>2. /\ r1 \in Results /\ r1.services = r.services
      /\ \A c \in Buckets : r1.ports[c] = IF c = b THEN Append(r.ports[c], P(w)) ELSE r.ports[c]
  BY <1>1, AppendPortFields
<1>3. target_results' = [target_results EXCEPT ![T(w)] = r1]
  BY DEF Write, r
<1> HIDE DEF r1
<1>4. target_results' \in [Targets -> Results] /\ target_results'[T(w)] = r1
      /\ \A t \in Targets \ {T(w)} : target_results'[t] = target_results[t]
  BY <1>1, <1>2, <1>3 DEF TypeOK
<1> QED
  BY <1>2, <1>4 DEF Lists, r

LEMMA RecordServiceLists ==
  ASSUME TypeOK, NEW w \in Workers, RecordNamed(w) \/ RecordService(w)
  PROVE  Lists(w, {}, {worker[w].bucket})
<1> DEFINE r == target_results[T(w)]
           b == worker[w].bucket
<1>1. T(w) \in Targets /\ P(w) \in Ports /\ r \in Results /\ b \in Buckets
  BY BusyWorker DEF RecordNamed, RecordService, On
<1>2. /\ Table(P(w)) \in Services /\ Table(P(w)).port = P(w)
      /\ Banner(P(w)) \in Services /\ Banner(P(w)).port = P(w)
  BY <1>1, TableIsService
<1>3. PICK r1 \in Results, v \in Services :
        /\ v.port = P(w) /\ r1.ports = r.ports /\ r1.services = r.services
        /\ target_results' = [target_results EXCEPT ![T(w)] = AppendService(r1, b, v)]
  <2>1. CASE RecordService(w)
    BY <1>1, <1>2, <2>1 DEF RecordService, Write
  <2>2. CASE RecordNamed(w)
    <3>1. PICK x \in Texts : target_results' = [target_results EXCEPT ![T(w)] =
                               AppendService(AppendBanner(r, x, P(w)), b, Banner(P(w)))]
      BY <2>2 DEF RecordNamed, Write
    <3> DEFINE r1 == AppendBanner(r, x, P(w))
    <3>2. r1 \in Results /\ r1.ports = r.ports /\ r1.services = r.services
      BY <1>1, AppendBannerFields
    <3> HIDE DEF r1
    <3> QED
      BY <1>2, <3>1, <3>2 DEF r1
  <2> QED
    BY <2>1, <2>2
<1> DEFINE r2 == AppendService(r1, b, v)
<1> HIDE DEF r
<1>4. /\ r2 \in Results /\ r2.ports = r1.ports
      /\ \A c \in Buckets : r2.services[c] =
           IF c = b THEN Append(r1.services[c], v) ELSE r1.services[c]
  BY <1>1, <1>3, AppendServiceFields
<1> HIDE DEF r2
<1>5. target_results' = [target_results EXCEPT ![T(w)] = r2]
  BY <1>3 DEF r2
<1>6. target_results' \in [Targets -> Results] /\ target_results'[T(w)] = r2
      /\ \A t \in Targets \ {T(w)} : target_results'[t] = target_results[t]
  BY <1>1, <1>4, <1>5 DEF TypeOK
<1>7. ASSUME NEW c \in Buckets
      PROVE  /\ target_results'[T(w)].ports[c] = r.ports[c]
             /\ target_results'[T(w)].services[c] =
                  IF c = b THEN Append(r.services[c], v) ELSE r.services[c]
  BY <1>3, <1>4, <1>6
<1> QED
  BY <1>3, <1>6, <1>7 DEF Lists, r

LEMMA AnswersAreBuckets ==
  ASSUME NEW k \in Kinds, NEW a \in DOMAIN Answers[k]
  PROVE  Answers[k][a] \in Buckets
  BY DEF Kinds, Answers, FlagRow, Buckets, PORT_TO_SERVICES

LEMMA WorkStepEffect ==
  ASSUME TypeOK, Raised, PortsOnly, NEW w \in Workers, Step(w), ~Take(w)
  PROVE  WorkStep(w)
<1>1. /\ ~On(w, "idle") /\ UNCHANGED <<scan, taken, phase, reported>>
      /\ worker' = [worker EXCEPT ![w] = worker'[w]]
      /\ \A v \in Workers \ {w} : worker'[v] = worker[v]
  <2>1. UNCHANGED <<scan, taken, phase, reported>>
    BY DEF Step, RecordPort, RecordNamed, RecordService, RecordProtocol, ProbeRaises, GiveUp
  <2>2. ~On(w, "idle")
    BY DEF Step, RecordPort, RecordNamed, RecordService, RecordProtocol, ProbeRaises,
       GiveUp, On
  <2>3. \E s : worker' = [worker EXCEPT ![w] = s]
    BY DEF Step, RecordPort, RecordNamed, RecordService, RecordProtocol, ProbeRaises,
       GiveUp, Return
  <2>4. PICK s : worker' = [worker EXCEPT ![w] = s]
    BY <2>3
  <2>5. DOMAIN worker = Workers
    BY DEF TypeOK
  <2>6. worker'[w] = s
    BY <2>4, <2>5
  <2> QED
    BY <2>1, <2>2, <2>4, <2>5, <2>6
<1>2. /\ scan \in ScanType /\ worker[w].attempt \in 0 .. scan.max_retries - 1
      /\ scan.max_retries \in Nat \ {0} /\ scan.kind \in Kinds
      /\ DOMAIN worker = Workers
      /\ worker[w] \in [job : 0..taken, pc : Labels, bucket : Buckets,
                        attempt : 0 .. scan.max_retries - 1]
  BY ScanAssumption DEF TypeOK, ScanType
<1> SUFFICES AppendsPort(w) \/ AppendsService(w) \/ AppendsBoth(w) \/ AppendsNothing(w)
  BY <1>1 DEF WorkStep
<1>3. Return(w) => Leaves(w)
  BY <1>2 DEF Return, Leaves
<1>4. CASE RecordPort(w)
  <2>1. PICK a \in DOMAIN Answers[scan.kind] :
          /\ Write(T(w), AppendPort(target_results[T(w)], Answers[scan.kind][a], P(w)))
          /\ worker' = [worker EXCEPT ![w].pc = "name", ![w].bucket = Answers[scan.kind][a]]
    BY <1>4 DEF RecordPort
  <2> DEFINE b == Answers[scan.kind][a]
  <2>2. b \in Buckets
    BY <1>2, AnswersAreBuckets
  <2> HIDE DEF b
  <2>3. Lists(w, {b}, {})
    BY <1>1, <2>1, <2>2, RecordPortLists DEF b
  <2>4. worker' = [worker EXCEPT ![w].pc = "name", ![w].bucket = b]
    BY <2>1 DEF b
  <2>5. Goes(w, "name", b)
    BY <1>2, <2>4 DEF Goes
  <2> QED
    BY <1>4, <2>2, <2>3, <2>5 DEF AppendsPort, RecordPort
<1>5. CASE RecordNamed(w) \/ RecordService(w)
  BY <1>3, <1>5, RecordServiceLists DEF RecordNamed, RecordService, AppendsService
<1>6. CASE RecordProtocol(w)
  <2>1. PICK a \in DOMAIN Answers["ipproto"] : RecordBoth(w, Answers["ipproto"][a])
    BY <1>6 DEF RecordProtocol
  <2>2. Answers["ipproto"][a] \in Buckets
    <3>1. "ipproto" \in Kinds
      BY DEF Kinds, Answers
    <3> QED
      BY <3>1, AnswersAreBuckets
  <2>3. Lists(w, {Answers["ipproto"][a]}, {Answers["ipproto"][a]})
    BY <1>1, <2>1, <2>2, RecordBothLists
  <2> QED
    BY <1>3, <1>6, <2>2, <2>3 DEF AppendsBoth, RecordProtocol
<1>7. CASE ProbeRaises(w)
  <2>1. CASE LastAttempt(w)
    <3>1. worker' = [worker EXCEPT ![w].pc = "give_up"]
      BY <1>7, <2>1 DEF ProbeRaises
    <3>2. Goes(w, "give_up", worker[w].bucket)
      BY <1>2, <3>1 DEF Goes
    <3> QED
      BY <1>7, <3>2 DEF AppendsNothing, ProbeRaises
  <2>2. CASE ~LastAttempt(w)
    <3>1. worker' = [worker EXCEPT ![w].attempt = @ + 1] /\ On(w, "probe")
      BY <1>7, <2>2 DEF ProbeRaises
    <3>2. worker[w].attempt + 1 \in 0 .. scan.max_retries - 1
      BY <1>2, <2>2 DEF LastAttempt
    <3>3. Goes(w, "probe", worker[w].bucket)
      BY <1>2, <3>1, <3>2 DEF Goes, On
    <3> QED
      BY <1>7, <3>3 DEF AppendsNothing, ProbeRaises
  <2> QED
    BY <2>1, <2>2
<1>8. CASE GiveUp(w)
  <2>1. On(w, "give_up") /\ Leaves(w) /\ scan.kind # "cookie"
    BY <1>3, <1>8 DEF GiveUp, Raised, PortsOnly
  <2>2. \/ RecordBoth(w, "filtered_protocols") \/ RecordBoth(w, "filtered_ports")
        \/ /\ P(w) \in Recorded(target_results[T(w)], "open_ports")
           /\ UNCHANGED target_results
    BY <1>8, <2>1 DEF GiveUp
  <2>3. "filtered_protocols" \in Buckets /\ "filtered_ports" \in Buckets
    BY DEF Buckets, PORT_TO_SERVICES
  <2>4. \A b \in Buckets : RecordBoth(w, b) => Lists(w, {b}, {b})
    BY <1>1, RecordBothLists
  <2> QED
    BY <2>1, <2>2, <2>3, <2>4 DEF AppendsBoth, AppendsNothing
<1> QED
  BY <1>4, <1>5, <1>6, <1>7, <1>8 DEF Step

-----------------------------------------------------------------------------
(* Type correctness *)

LEMMA ScanStays == [Next]_vars => scan' = scan
<1> SUFFICES ASSUME [Next]_vars PROVE scan' = scan
  OBVIOUS
<1>1. CASE UNCHANGED vars \/ Main
  BY <1>1 DEF Main, FinishScan, ReportTarget, FinishReport, vars
<1>2. ASSUME NEW w \in Workers, Step(w) PROVE scan' = scan
  BY <1>2 DEF Step, Take, RecordPort, RecordNamed, RecordService, RecordProtocol,
     ProbeRaises, GiveUp
<1> QED
  BY <1>1, <1>2 DEF Next, Terminated

LEMMA InitType == Init => TypeOK /\ Raised
<1> SUFFICES ASSUME Init PROVE TypeOK /\ Raised
  OBVIOUS
<1>1. scan \in Scans /\ scan \in ScanType /\ Len(Jobs) \in Nat
  BY JobsType, ScanAssumption DEF Init
<1>2. initialize_target_results \in Results
  BY DEF initialize_target_results, Results
<1>3. target_results \in [Targets -> Results]
  BY <1>2 DEF Init
<1>4. /\ "open_ports" \in Buckets /\ "idle" \in Labels
      /\ 0 \in 0 .. scan.max_retries - 1 /\ Len(scan.targetss) \in Nat
  BY <1>1 DEF Buckets, PORT_TO_SERVICES, Labels, ScanType
<1>5. Idle \in [job : 0..taken, pc : Labels, bucket : Buckets,
                attempt : 0 .. scan.max_retries - 1]
  BY <1>4 DEF Init, Idle
<1>6. \A w \in Workers : worker[w] = Idle
  BY DEF Init
<1> QED
  BY <1>1, <1>3, <1>4, <1>5, <1>6 DEF Init, TypeOK, Raised, On, Idle

\* What Take does to the thread that takes a job.
LEMMA TakeType ==
  ASSUME TypeOK, NEW w \in Workers, Take(w)
  PROVE  /\ On(w, "idle") /\ worker[w].job = 0
         /\ worker'[w] = [job |-> taken + 1, pc |-> "probe", attempt |-> 0,
                          bucket |-> "open_ports"]
         /\ \A v \in Workers \ {w} : worker'[v] = worker[v]
         /\ worker' = [worker EXCEPT ![w] = worker'[w]]
         /\ taken' = taken + 1 /\ taken + 1 \in DOMAIN Jobs /\ taken \in Nat
         /\ UNCHANGED <<scan, target_results, phase, reported>>
<1>1. /\ Len(Jobs) \in Nat /\ taken \in 0..Len(Jobs) /\ DOMAIN Jobs = 1..Len(Jobs)
      /\ DOMAIN worker = Workers
  BY JobsType, ScanAssumption DEF TypeOK
<1>2. /\ On(w, "idle") /\ taken < Len(Jobs) /\ taken' = taken + 1
      /\ UNCHANGED <<scan, target_results, phase, reported>>
      /\ worker' = [worker EXCEPT ![w] = [Idle EXCEPT !.job = taken + 1, !.pc = "probe"]]
  BY DEF Take
<1>3. [Idle EXCEPT !.job = taken + 1, !.pc = "probe"] =
        [job |-> taken + 1, pc |-> "probe", attempt |-> 0, bucket |-> "open_ports"]
  <2> DEFINE e == [Idle EXCEPT !.job = taken + 1]
  <2>1. e = [job |-> taken + 1, pc |-> "idle", attempt |-> 0, bucket |-> "open_ports"]
    BY DEF Idle
  <2>2. [Idle EXCEPT !.job = taken + 1, !.pc = "probe"] = [e EXCEPT !.pc = "probe"]
    BY <2>1 DEF Idle
  <2> HIDE DEF e
  <2>3. /\ DOMAIN e = {"job", "pc", "attempt", "bucket"}
        /\ e.job = taken + 1 /\ e.attempt = 0 /\ e.bucket = "open_ports"
    BY <2>1
  <2>4. [e EXCEPT !.pc = "probe"] =
          [job |-> e.job, pc |-> "probe", attempt |-> e.attempt, bucket |-> e.bucket]
    BY <2>3
  <2> QED
    BY <2>2, <2>3, <2>4
<1>4. taken + 1 \in DOMAIN Jobs /\ taken \in Nat
  BY <1>1, <1>2
<1>5. worker[w].job = 0
  BY <1>2 DEF TypeOK
<1> QED
  BY <1>1, <1>2, <1>3, <1>4, <1>5

LEMMA NextType == TypeOK /\ Raised /\ PortsOnly /\ [Next]_vars => TypeOK' /\ Raised'
<1> SUFFICES ASSUME TypeOK, Raised, PortsOnly, [Next]_vars PROVE TypeOK' /\ Raised'
  OBVIOUS
<1>1. /\ scan \in ScanType /\ scan' = scan /\ Jobs' = Jobs
      /\ Len(Jobs) \in Nat /\ taken \in 0..Len(Jobs) /\ DOMAIN Jobs = 1..Len(Jobs)
      /\ Len(scan.targetss) \in Nat /\ reported \in 0..Len(scan.targetss)
  BY ScanStays, JobsType, JobsFixed, ScanAssumption DEF TypeOK, ScanType
<1>2. CASE UNCHANGED vars \/ FinishScan \/ FinishReport
  <2>1. UNCHANGED <<target_results, taken, worker, reported>>
    BY <1>2 DEF vars, FinishScan, FinishReport
  <2>2. phase' \in {"scan", "report", "done"}
    BY <1>2 DEF vars, FinishScan, FinishReport, TypeOK
  <2> QED
    BY <1>1, <2>1, <2>2 DEF TypeOK, Raised, On
<1>3. CASE ReportTarget
  <2>1. /\ UNCHANGED <<taken, worker, phase>> /\ reported' = reported + 1
        /\ reported < Len(scan.targetss)
    BY <1>3 DEF ReportTarget
  <2>2. target_results' \in [Targets -> Results]
    BY <1>3, SyncAndDeduplicateType DEF ReportTarget, Write, TypeOK
  <2>3. reported' \in 0..Len(scan.targetss)
    BY <1>1, <2>1
  <2> QED
    BY <1>1, <2>1, <2>2, <2>3 DEF TypeOK, Raised, On
\* A step of w changes the state of w only.
<1> DEFINE State(k) == [job : 0..k, pc : Labels, bucket : Buckets,
                        attempt : 0 .. scan.max_retries - 1]
<1>4. ASSUME NEW w \in Workers, taken' \in {taken, taken + 1}, taken' \in 0..Len(Jobs),
             worker' = [worker EXCEPT ![w] = worker'[w]],
             worker'[w] \in State(taken'), worker'[w].pc = "idle" <=> worker'[w].job = 0,
             worker'[w].pc = "give_up" => scan.raise,
             target_results' \in [Targets -> Results], UNCHANGED <<phase, reported>>
      PROVE  TypeOK' /\ Raised'
  <2>1. State(taken) \subseteq State(taken')
    <3>1. 0..taken \subseteq 0..taken'
      BY <1>1, <1>4
    <3> QED
      BY <3>1
  <2>2. worker \in [Workers -> State(taken)]
    BY DEF TypeOK
  <2> HIDE DEF State
  <2>3. /\ worker' \in [Workers -> State(taken')]
        /\ \A v \in Workers \ {w} : worker'[v] = worker[v]
    BY <1>4, <2>1, <2>2
  <2> USE DEF State
  <2> QED
    BY <1>1, <1>4, <2>3 DEF TypeOK, Raised, On
<1>5. ASSUME NEW w \in Workers, Take(w)
      PROVE  TypeOK' /\ Raised'
  <2>1. /\ worker'[w] = [job |-> taken + 1, pc |-> "probe", attempt |-> 0,
                          bucket |-> "open_ports"]
        /\ taken' = taken + 1 /\ taken + 1 \in 1..Len(Jobs) /\ taken \in Nat
        /\ UNCHANGED <<target_results, phase, reported>>
        /\ worker' = [worker EXCEPT ![w] = worker'[w]]
    BY <1>1, <1>5, TakeType
  <2>2. /\ "open_ports" \in Buckets /\ "probe" \in Labels /\ 0 \in 0 .. scan.max_retries - 1
        /\ taken + 1 \in 0 .. taken + 1
    BY <1>1, <2>1 DEF Buckets, PORT_TO_SERVICES, Labels, ScanType
  <2>3. worker'[w] \in State(taken')
    BY <2>1, <2>2
  <2>4. target_results' \in [Targets -> Results] /\ taken' \in 0..Len(Jobs)
    BY <1>1, <2>1 DEF TypeOK
  <2>5. worker'[w].pc = "probe" /\ worker'[w].job # 0
    BY <2>1
  <2> HIDE DEF State
  <2> QED
    BY <1>4, <2>1, <2>3, <2>4, <2>5
<1>6. ASSUME NEW w \in Workers, Step(w), ~Take(w)
      PROVE  TypeOK' /\ Raised'
  <2>1. WorkStep(w)
    BY <1>6, WorkStepEffect
  <2>2. target_results' \in [Targets -> Results]
    BY <2>1 DEF WorkStep, AppendsPort, AppendsService, AppendsBoth, AppendsNothing, Lists,
       TypeOK
  <2>3. /\ worker[w] \in State(taken) /\ worker[w].job # 0 /\ taken' = taken
        /\ {"idle", "probe", "name", "give_up"} \subseteq Labels /\ 0 \in 0..taken
        /\ 0 \in 0 .. scan.max_retries - 1 /\ "open_ports" \in Buckets
    BY <1>1, <2>1 DEF WorkStep, TypeOK, Labels, Buckets, PORT_TO_SERVICES, ScanType
  <2>4. CASE Leaves(w)
    <3>1. worker'[w] = [job |-> 0, pc |-> "idle", attempt |-> 0, bucket |-> "open_ports"]
      BY <2>4 DEF Leaves, Idle
    <3>2. worker'[w] \in State(taken')
      BY <2>3, <3>1
    <3> HIDE DEF State
    <3> QED
      BY <1>1, <1>4, <2>1, <2>2, <2>3, <3>1, <3>2 DEF WorkStep
  <2>5. ASSUME NEW l \in {"probe", "name", "give_up"}, NEW b \in Buckets, Goes(w, l, b),
               l = "give_up" => scan.raise
        PROVE  TypeOK' /\ Raised'
    <3>1. worker'[w] \in State(taken')
      BY <2>3, <2>5 DEF Goes
    <3> HIDE DEF State
    <3> QED
      BY <1>1, <1>4, <2>1, <2>2, <2>3, <2>5, <3>1 DEF WorkStep, Goes
  <2> QED
    BY <2>1, <2>3, <2>4, <2>5 DEF WorkStep, AppendsPort, AppendsService, AppendsBoth,
       AppendsNothing
<1> QED
  BY <1>2, <1>3, <1>5, <1>6 DEF Next, Main, Terminated

\* Every variable keeps its type, a thread never makes more attempts than max_retries, and
\* the lists of ports hold ports: of every scan but a cookie scan that may raise.
THEOREM TypeCorrect == Spec => [](PortsOnly => TypeOK)
<1> DEFINE Inv == PortsOnly => TypeOK /\ Raised
<1>1. Init => Inv
  BY InitType
<1>2. Inv /\ [Next]_vars => Inv'
  BY NextType, ScanStays DEF PortsOnly
<1>3. Inv => (PortsOnly => TypeOK)
  OBVIOUS
<1> QED
  BY <1>1, <1>2, <1>3, PTL DEF Spec

-----------------------------------------------------------------------------
(* One verdict per port *)

\* No two threads hold the same job.
Distinct ==
  \A w \in Workers : \A v \in Workers \ {w} :
    worker[v].job = worker[w].job => worker[w].job = 0

\* The port of job n stands in bucket b of its target.
In(n, b)  == Jobs[n][2] \in Recorded(target_results[Jobs[n][1]], b)
Unseen(n) == \A b \in Buckets : ~In(n, b)

\* A port stands nowhere before its job is taken, nor while its thread may settle it.
JobVerdict(n) ==
  /\ \A b, c \in Buckets : In(n, b) /\ In(n, c) => b = c
  /\ n > taken => Unseen(n)
  /\ \A w \in Workers : worker[w].job = n /\ worker[w].pc \in {"probe", "give_up"} => Unseen(n)

VerdictInv == Distinct /\ \A n \in DOMAIN Jobs : Sole(n) => JobVerdict(n)

LEMMA InitVerdict == Init => VerdictInv
<1> SUFFICES ASSUME Init PROVE VerdictInv
  OBVIOUS
<1>1. scan \in ScanType
  BY ScanAssumption DEF Init
<1>2. ASSUME NEW n \in DOMAIN Jobs PROVE Unseen(n)
  <2>1. Jobs[n][1] \in Targets
    BY <1>1, JobsType
  <2> QED
    BY <2>1 DEF Init, initialize_target_results, Recorded, Unseen, In
<1> QED
  BY <1>2 DEF Init, Idle, VerdictInv, Distinct, JobVerdict, Unseen

LEMMA ListsRecorded ==
  ASSUME TypeOK, NEW w \in Workers, ~On(w, "idle"), NEW B, NEW S, Lists(w, B, S),
         NEW t \in Targets, NEW c \in Buckets
  PROVE  Recorded(target_results'[t], c) =
           Recorded(target_results[t], c) \cup (IF t = T(w) /\ c \in B THEN {P(w)} ELSE {})
<1>1. T(w) \in Targets /\ P(w) \in Ports /\ target_results[T(w)] \in Results
  BY BusyWorker
<1>2. CASE t # T(w)
  BY <1>2 DEF Lists
<1>3. CASE t = T(w) /\ c \notin B
  <2>1. target_results'[T(w)].ports[c] = target_results[T(w)].ports[c]
    BY <1>3 DEF Lists
  <2> QED
    BY <1>3, <2>1 DEF Recorded
<1>4. CASE t = T(w) /\ c \in B
  <2> DEFINE q == target_results[T(w)].ports[c]
  <2>1. q \in Seq(Ports) /\ target_results'[T(w)].ports[c] = Append(q, P(w))
    BY <1>1, <1>4 DEF Lists, Results
  <2> HIDE DEF q
  <2>2. {Append(q, P(w))[i] : i \in DOMAIN Append(q, P(w))} = {q[i] : i \in DOMAIN q} \cup {P(w)}
    BY <1>1, <2>1, AppendElements
  <2> QED
    BY <1>4, <2>1, <2>2 DEF Recorded, q
<1> QED
  BY <1>2, <1>3, <1>4

\* The port of job n stands in bucket c after the step of w if it did or w added it.
LEMMA ListsIn ==
  ASSUME TypeOK, NEW w \in Workers, ~On(w, "idle"), scan' = scan,
         NEW B, NEW S, Lists(w, B, S),
         NEW n \in DOMAIN Jobs, NEW c \in Buckets
  PROVE  In(n, c)' <=> \/ In(n, c)
                       \/ c \in B /\ Jobs[n] = Jobs[worker[w].job]
<1>1. /\ Jobs[n][1] \in Targets /\ Jobs' = Jobs
      /\ Jobs[n] = Jobs[worker[w].job] <=> Jobs[n][1] = T(w) /\ Jobs[n][2] = P(w)
  BY BusyWorker, JobsType, JobsFixed DEF T, P
<1>2. PICK t \in Targets : t = Jobs[n][1]
  BY <1>1
<1>3. Recorded(target_results'[t], c) =
        Recorded(target_results[t], c) \cup (IF t = T(w) /\ c \in B THEN {P(w)} ELSE {})
  BY ListsRecorded
<1> QED
  BY <1>1, <1>2, <1>3 DEF In

\* A busy worker puts its port into one bucket, coming from where it stands in none, or
\* changes no list of ports.
LEMMA WorkIn ==
  ASSUME TypeOK, NEW w \in Workers, WorkStep(w)
  PROVE  \/ \A n \in DOMAIN Jobs, c \in Buckets : In(n, c)' <=> In(n, c)
         \/ /\ worker[w].pc \in {"probe", "give_up"}
            /\ \E b \in Buckets : \A n \in DOMAIN Jobs, c \in Buckets :
                 In(n, c)' <=> In(n, c) \/ (c = b /\ Jobs[n] = Jobs[worker[w].job])
            /\ worker'[w].pc \notin {"probe", "give_up"}
<1>1. ~On(w, "idle") /\ scan' = scan
  BY DEF WorkStep
<1>2. Leaves(w) => worker'[w].pc = "idle"
  BY DEF Leaves, Idle
<1>3. CASE AppendsPort(w) \/ AppendsBoth(w)
  <2>1. PICK b \in Buckets :
          /\ \E S : Lists(w, {b}, S)
          /\ worker[w].pc \in {"probe", "give_up"}
          /\ worker'[w].pc \notin {"probe", "give_up"}
    <3>1. CASE AppendsPort(w)
      <4>1. PICK b \in Buckets : Lists(w, {b}, {}) /\ Goes(w, "name", b)
        BY <3>1 DEF AppendsPort
      <4>2. worker[w].pc = "probe" /\ worker'[w].pc = "name"
        BY <3>1, <4>1 DEF AppendsPort, On, Goes
      <4> QED
        BY <4>1, <4>2
    <3>2. CASE AppendsBoth(w)
      BY <1>2, <3>2 DEF AppendsBoth, On
    <3> QED
      BY <1>3, <3>1, <3>2
  <2>2. PICK S : Lists(w, {b}, S)
    BY <2>1
  <2>3. \A n \in DOMAIN Jobs, c \in Buckets :
          In(n, c)' <=> In(n, c) \/ (c \in {b} /\ Jobs[n] = Jobs[worker[w].job])
    BY <1>1, <2>2, ListsIn
  <2> QED
    BY <2>1, <2>3
<1>4. CASE AppendsService(w)
  <2>1. Lists(w, {}, {worker[w].bucket})
    BY <1>4 DEF AppendsService
  <2>2. PICK S : Lists(w, {}, S)
    BY <2>1
  <2>3. \A n \in DOMAIN Jobs, c \in Buckets :
          In(n, c)' <=> In(n, c) \/ (c \in {} /\ Jobs[n] = Jobs[worker[w].job])
    BY <1>1, <2>2, ListsIn
  <2> QED
    BY <2>3
<1>5. CASE AppendsNothing(w)
  <2>1. target_results' = target_results /\ Jobs' = Jobs
    BY <1>1, <1>5, JobsFixed DEF AppendsNothing
  <2> QED
    BY <2>1 DEF In
<1> QED
  BY <1>3, <1>4, <1>5 DEF WorkStep

LEMMA NextVerdict ==
  TypeOK /\ Raised /\ PortsOnly /\ VerdictInv /\ [Next]_vars => VerdictInv'
<1> SUFFICES ASSUME TypeOK, Raised, PortsOnly, VerdictInv, [Next]_vars PROVE VerdictInv'
  OBVIOUS
<1>1. /\ scan \in ScanType /\ scan' = scan /\ Jobs' = Jobs /\ \A n : Sole(n)' <=> Sole(n)
      /\ DOMAIN Jobs \subseteq Nat \ {0} /\ taken \in Nat
      /\ \A n \in DOMAIN Jobs : Jobs[n][1] \in Targets
      /\ \A w \in Workers : worker[w].job \in Nat /\ ~(worker[w].job > taken)
  <2>1. scan \in ScanType /\ scan' = scan
    BY ScanStays, ScanAssumption DEF TypeOK
  <2>2. /\ Jobs' = Jobs /\ \A n : Sole(n)' <=> Sole(n)
        /\ DOMAIN Jobs \subseteq Nat \ {0} /\ taken \in Nat
        /\ \A n \in DOMAIN Jobs : Jobs[n][1] \in Targets
    BY <2>1, JobsFixed, JobsType DEF TypeOK
  <2>3. \A w \in Workers : worker[w].job \in 0..taken
    BY DEF TypeOK
  <2> QED
    BY <2>1, <2>2, <2>3
<1>2. CASE UNCHANGED <<target_results, taken, worker>>
  BY <1>1, <1>2 DEF VerdictInv, Distinct, JobVerdict, Unseen, In
<1>3. CASE ReportTarget
  <2>1. UNCHANGED <<taken, worker>>
    BY <1>3 DEF ReportTarget
  <2>2. \A t \in Targets, b \in Buckets :
          Recorded(target_results'[t], b) \subseteq Recorded(target_results[t], b)
    <3>1. \A t \in Targets : \/ target_results'[t] = target_results[t]
                             \/ target_results'[t] = SyncAndDeduplicate(target_results[t])
      BY <1>3 DEF ReportTarget, Write, TypeOK
    <3> QED
      BY <3>1, SyncAndDeduplicateType DEF TypeOK
  <2>3. \A n \in DOMAIN Jobs, b \in Buckets : In(n, b)' => In(n, b)
    BY <1>1, <2>2 DEF In
  <2> QED
    BY <1>1, <2>1, <2>3 DEF VerdictInv, Distinct, JobVerdict, Unseen
<1>4. ASSUME NEW w \in Workers, Take(w)
      PROVE  VerdictInv'
  <2>1. /\ worker[w].job = 0 /\ worker'[w].job = taken + 1 /\ taken' = taken + 1
        /\ \A v \in Workers \ {w} : worker'[v] = worker[v]
        /\ target_results' = target_results
    BY <1>4, TakeType
  <2>2. Distinct'
    BY <1>1, <2>1 DEF VerdictInv, Distinct
  <2>3. \A n \in DOMAIN Jobs, b \in Buckets : In(n, b)' <=> In(n, b)
    BY <1>1, <2>1 DEF In
  <2>4. ASSUME NEW n \in DOMAIN Jobs, Sole(n) PROVE JobVerdict(n)'
    <3>1. n > taken + 1 \/ n = taken + 1 => n > taken
      BY <1>1
    <3>2. JobVerdict(n)
      BY <2>4 DEF VerdictInv
    <3> QED
      BY <2>1, <2>3, <3>1, <3>2 DEF JobVerdict, Unseen
  <2> QED
    BY <1>1, <2>2, <2>4 DEF VerdictInv
<1>5. ASSUME NEW w \in Workers, WorkStep(w)
      PROVE  VerdictInv'
  <2>1. /\ taken' = taken /\ \A v \in Workers \ {w} : worker'[v] = worker[v]
        /\ worker[w].job \in DOMAIN Jobs /\ ~On(w, "idle")
        /\ Leaves(w) \/ worker'[w].job = worker[w].job
        /\ worker'[w].pc \in {"probe", "give_up"} =>
             worker[w].pc = "probe" /\ worker'[w].job = worker[w].job
    <3>1. worker[w].job \in DOMAIN Jobs /\ ~On(w, "idle") /\ taken' = taken
          /\ \A v \in Workers \ {w} : worker'[v] = worker[v]
      BY <1>5, BusyWorker DEF WorkStep
    <3>2. Leaves(w) => worker'[w].pc = "idle"
      BY DEF Leaves, Idle
    <3>3. ASSUME NEW l, NEW b, Goes(w, l, b)
          PROVE  worker'[w].job = worker[w].job /\ worker'[w].pc = l
      BY <3>3 DEF Goes
    <3>4. \/ Leaves(w)
          \/ worker'[w].job = worker[w].job /\ worker'[w].pc = "name"
          \/ worker'[w].job = worker[w].job /\ worker[w].pc = "probe"
      BY <1>5, <3>3 DEF WorkStep, AppendsPort, AppendsService, AppendsBoth, AppendsNothing, On
    <3> QED
      BY <3>1, <3>2, <3>4
  <2>2. Distinct'
    BY <2>1 DEF VerdictInv, Distinct, Leaves, Idle
  <2>3. ASSUME NEW n \in DOMAIN Jobs, Sole(n) PROVE JobVerdict(n)'
    <3>1. JobVerdict(n)
      BY <2>3 DEF VerdictInv
    <3>2. CASE \A c \in Buckets : In(n, c)' <=> In(n, c)
      BY <2>1, <3>1, <3>2 DEF JobVerdict, Unseen, Leaves, Idle
    <3>3. CASE /\ worker[w].pc \in {"probe", "give_up"}
               /\ worker'[w].pc \notin {"probe", "give_up"} /\ n = worker[w].job
               /\ \E b \in Buckets : \A c \in Buckets : In(n, c)' <=> In(n, c) \/ c = b
      <4>1. PICK b \in Buckets : \A c \in Buckets : In(n, c)' <=> In(n, c) \/ c = b
        BY <3>3
      <4>2. \A c \in Buckets : In(n, c)' <=> c = b
        BY <3>1, <3>3, <4>1 DEF JobVerdict, Unseen
      <4>3. ~(n > taken')
        BY <1>1, <2>1, <3>3
      <4>4. \A v \in Workers : worker'[v].job = n => v = w
        BY <1>1, <2>1, <3>3 DEF VerdictInv, Distinct
      <4> QED
        BY <3>3, <4>2, <4>3, <4>4 DEF JobVerdict, Unseen
    <3>4. Jobs[n] = Jobs[worker[w].job] => n = worker[w].job
      BY <2>1, <2>3 DEF Sole
    <3> QED
      BY <1>5, <3>2, <3>3, <3>4, WorkIn
  <2> QED
    BY <1>1, <2>2, <2>3 DEF VerdictInv
<1>6. CASE UNCHANGED vars \/ FinishScan \/ FinishReport
  BY <1>2, <1>6 DEF vars, FinishScan, FinishReport
<1> QED
  BY <1>3, <1>4, <1>5, <1>6, WorkStepEffect DEF Next, Main, Terminated

\* A port scanned once stands in at most one bucket, for any number of threads and however
\* many attempts raise: a retry follows only an attempt that recorded nothing.
THEOREM OneVerdictHolds == Spec => [](PortsOnly => OneVerdict)
<1> DEFINE Inv == PortsOnly => TypeOK /\ Raised /\ VerdictInv
<1>1. Init => Inv
  BY InitType, InitVerdict
<1>2. Inv /\ [Next]_vars => Inv'
  BY NextType, NextVerdict, ScanStays DEF PortsOnly
<1>3. Inv => (PortsOnly => OneVerdict)
  BY DEF VerdictInv, JobVerdict, OneVerdict, In
<1> QED
  BY <1>1, <1>2, <1>3, PTL DEF Spec

-----------------------------------------------------------------------------
(* Who still writes *)

\* The pool is idle once the scan is over; a single thread works alone; a protocol and its
\* name are appended at once.
Quiet ==
  /\ phase # "scan" => taken = Len(Jobs) /\ \A w \in Workers : On(w, "idle")
  /\ scan.max_threads = 1 => \A w \in Workers \ {1} : On(w, "idle")
  /\ scan.kind = "ipproto" => \A w \in Workers : ~On(w, "name")

LEMMA InitQuiet == Init => Quiet
  BY DEF Init, Quiet, On, Idle

LEMMA WorkMoves ==
  ASSUME NEW w \in Workers, WorkStep(w)
  PROVE  /\ Leaves(w) => worker'[w].pc = "idle" /\ worker'[w].job = 0
         /\ Leaves(w) \/ worker'[w].job = worker[w].job
         /\ worker'[w].pc = "name" => ~Leaves(w) /\ scan.kind # "ipproto"
<1>1. Leaves(w) => worker'[w].pc = "idle" /\ worker'[w].job = 0
  BY DEF Leaves, Idle
<1>2. ASSUME NEW l, NEW b, Goes(w, l, b)
      PROVE  worker'[w].job = worker[w].job /\ worker'[w].pc = l
  BY <1>2 DEF Goes
<1>3. \/ Leaves(w)
      \/ worker'[w].job = worker[w].job /\ scan.kind # "ipproto"
      \/ worker'[w].job = worker[w].job /\ worker'[w].pc \in {"probe", "give_up"}
  BY <1>2 DEF WorkStep, AppendsPort, AppendsService, AppendsBoth, AppendsNothing
<1> QED
  BY <1>1, <1>3

LEMMA NextQuiet == TypeOK /\ Raised /\ PortsOnly /\ Quiet /\ [Next]_vars => Quiet'
<1> SUFFICES ASSUME TypeOK, Raised, PortsOnly, Quiet, [Next]_vars PROVE Quiet'
  OBVIOUS
<1>1. scan' = scan /\ Jobs' = Jobs
  BY ScanStays, JobsFixed
<1>2. CASE UNCHANGED vars \/ Main
  <2>1. UNCHANGED <<taken, worker>>
    BY <1>2 DEF Main, FinishScan, ReportTarget, FinishReport, vars
  <2>2. phase' # "scan" => taken = Len(Jobs) /\ \A w \in Workers : On(w, "idle")
    BY <1>2 DEF Main, FinishScan, ReportTarget, FinishReport, vars, Quiet
  <2> QED
    BY <1>1, <2>1, <2>2 DEF Quiet, On
<1>3. ASSUME NEW w \in Workers, Take(w)
      PROVE  Quiet'
  <2>1. /\ worker'[w].pc = "probe" /\ phase' = phase
        /\ \A v \in Workers \ {w} : worker'[v] = worker[v]
    BY <1>3, TakeType
  <2>2. phase = "scan"
    BY <1>3 DEF Take
  <2>3. scan.max_threads = 1 => w = 1
    BY <1>3, ScanAssumption DEF Take, Workers
  <2> QED
    BY <1>1, <2>1, <2>3, <2>2 DEF Quiet, On
<1>4. ASSUME NEW w \in Workers, WorkStep(w)
      PROVE  Quiet'
  <2>1. /\ ~On(w, "idle") /\ phase' = phase
        /\ \A v \in Workers \ {w} : worker'[v] = worker[v]
    BY <1>4 DEF WorkStep
  <2>2. phase = "scan" /\ (scan.max_threads = 1 => w = 1)
    BY <2>1 DEF Quiet
  <2>3. worker'[w].pc = "name" => scan.kind # "ipproto"
    BY <1>4, WorkMoves
  <2> QED
    BY <1>1, <2>1, <2>2, <2>3 DEF Quiet, On
<1> QED
  BY <1>2, <1>3, <1>4, WorkStepEffect DEF Next, Terminated

\* The threads that have appended a port to bucket b of target t and not yet the service.
Owing(t, b) == {w \in Workers : On(w, "name") /\ T(w) = t /\ worker[w].bucket = b}

LEMMA OwingFinite ==
  ASSUME NEW t, NEW b
  PROVE  IsFiniteSet(Owing(t, b)) /\ Cardinality(Owing(t, b)) \in Nat
<1>1. IsFiniteSet(Workers)
  BY ScanAssumption, FS_Interval DEF Workers
<1>2. Owing(t, b) \in SUBSET Workers
  BY DEF Owing
<1> QED
  BY <1>1, <1>2, FS_Subset, FS_CardinalityType

LEMMA WorkOwing ==
  ASSUME NEW w \in Workers, WorkStep(w), NEW t, NEW b
  PROVE  /\ Owing(t, b)' = IF worker'[w].pc = "name" /\ T(w) = t /\ worker'[w].bucket = b
                           THEN Owing(t, b) \cup {w} ELSE Owing(t, b) \ {w}
         /\ w \in Owing(t, b) <=> On(w, "name") /\ T(w) = t /\ worker[w].bucket = b
<1>1. Jobs' = Jobs /\ \A v \in Workers \ {w} : worker'[v] = worker[v]
  BY JobsFixed DEF WorkStep
<1>2. worker'[w].pc = "name" => worker'[w].job = worker[w].job
  BY WorkMoves
<1> QED
  BY <1>1, <1>2 DEF Owing, On, T

\* No step but that of a busy worker concerns those threads.
LEMMA OthersOwing ==
  ASSUME TypeOK, [Next]_vars, \A w \in Workers : Step(w) => Take(w), NEW t, NEW b
  PROVE  Owing(t, b)' = Owing(t, b)
<1>1. Jobs' = Jobs
  BY ScanStays, JobsFixed
<1>2. CASE UNCHANGED vars \/ Main
  <2>1. worker' = worker
    BY <1>2 DEF Main, FinishScan, ReportTarget, FinishReport, vars
  <2> QED
    BY <1>1, <2>1 DEF Owing, On, T
<1>3. ASSUME NEW w \in Workers, Take(w)
      PROVE  Owing(t, b)' = Owing(t, b)
  <2>1. /\ worker[w].pc = "idle" /\ worker'[w].pc = "probe"
        /\ \A v \in Workers \ {w} : worker'[v] = worker[v]
    BY <1>3, TakeType DEF On
  <2> QED
    BY <1>1, <2>1 DEF Owing, On, T
<1> QED
  BY <1>2, <1>3 DEF Next, Terminated

-----------------------------------------------------------------------------
(* As many services as ports *)

\* Every port has a service, or a thread that is about to append one.
Lengths ==
  \A t \in Targets, b \in Buckets :
    Len(target_results[t].ports[b]) =
      Len(target_results[t].services[b]) + Cardinality(Owing(t, b))

LEMMA InitLengths == Init => Lengths
<1> SUFFICES ASSUME Init, NEW t \in Targets, NEW b \in Buckets
             PROVE  Len(target_results[t].ports[b]) =
                      Len(target_results[t].services[b]) + Cardinality(Owing(t, b))
  BY DEF Lengths
<1>1. Len(target_results[t].ports[b]) = 0 /\ Len(target_results[t].services[b]) = 0
  BY DEF Init, initialize_target_results
<1>2. Owing(t, b) = {} /\ Cardinality({}) = 0
  BY FS_EmptySet DEF Init, Owing, On, Idle
<1> QED
  BY <1>1, <1>2

LEMMA WorkLengths ==
  ASSUME TypeOK, Lengths, NEW w \in Workers, WorkStep(w)
  PROVE  Lengths'
<1> DEFINE n(t, b) == Cardinality(Owing(t, b))
<1>1. /\ ~On(w, "idle") /\ T(w) \in Targets /\ P(w) \in Ports
      /\ Leaves(w) => worker'[w].pc = "idle"
  BY BusyWorker, WorkMoves DEF WorkStep
<1>2. ASSUME NEW t, NEW b
      PROVE  /\ Owing(t, b)' =
                  IF worker'[w].pc = "name" /\ T(w) = t /\ worker'[w].bucket = b
                  THEN Owing(t, b) \cup {w} ELSE Owing(t, b) \ {w}
             /\ w \in Owing(t, b) <=> On(w, "name") /\ T(w) = t /\ worker[w].bucket = b
  BY WorkOwing
<1>3. ASSUME NEW t, NEW b
      PROVE  /\ n(t, b) \in Nat
             /\ w \notin Owing(t, b) => Cardinality(Owing(t, b) \cup {w}) = n(t, b) + 1
             /\ w \in Owing(t, b) => Cardinality(Owing(t, b) \ {w}) = n(t, b) - 1
  BY OwingFinite, FS_AddElement, FS_RemoveElement
<1> SUFFICES ASSUME NEW t \in Targets, NEW c \in Buckets
             PROVE  Len(target_results'[t].ports[c]) =
                      Len(target_results'[t].services[c]) + Cardinality(Owing(t, c)')
  BY DEF Lengths
<1> DEFINE ps == target_results[t].ports[c]
           ss == target_results[t].services[c]
           Goal == Len(target_results'[t].ports[c]) =
                     Len(target_results'[t].services[c]) + Cardinality(Owing(t, c)')
<1>4. /\ ps \in Seq(Ports) /\ ss \in Seq(Services)
      /\ Len(ps) = Len(ss) + n(t, c) /\ n(t, c) \in Nat
      /\ Len(ps) \in Nat /\ Len(ss) \in Nat
  <2>1. ps \in Seq(Ports) /\ ss \in Seq(Services)
    BY DEF TypeOK, Results
  <2>2. Len(ps) = Len(ss) + n(t, c) /\ n(t, c) \in Nat
    BY <1>3 DEF Lengths
  <2> HIDE DEF ps, ss
  <2> QED
    BY <2>1, <2>2
<1>5. Len(Append(ps, P(w))) = Len(ps) + 1 /\ \A v \in Services : Len(Append(ss, v)) = Len(ss) + 1
  BY <1>1, <1>4, AppendLen
<1>6. ASSUME NEW B, NEW S, Lists(w, B, S)
      PROVE  /\ Len(target_results'[t].ports[c]) =
                  Len(ps) + (IF T(w) = t /\ c \in B THEN 1 ELSE 0)
             /\ Len(target_results'[t].services[c]) =
                  Len(ss) + (IF T(w) = t /\ c \in S THEN 1 ELSE 0)
  <2>1. /\ target_results'[t].ports[c] =
             IF T(w) = t /\ c \in B THEN Append(ps, P(w)) ELSE ps
        /\ IF T(w) = t /\ c \in S
           THEN \E v \in Services : target_results'[t].services[c] = Append(ss, v)
           ELSE target_results'[t].services[c] = ss
    BY <1>6 DEF Lists
  <2> HIDE DEF ps, ss
  <2> QED
    BY <1>4, <1>5, <2>1
<1> DEFINE k == n(t, c)
<1>7. /\ w \notin Owing(t, c) => Cardinality(Owing(t, c) \cup {w}) = k + 1
      /\ w \in Owing(t, c) => Cardinality(Owing(t, c) \ {w}) = k - 1
      /\ w \notin Owing(t, c) => Owing(t, c) \ {w} = Owing(t, c)
      /\ k \in Nat /\ Len(ps) = Len(ss) + k /\ Cardinality(Owing(t, c)) = k
  BY <1>3, <1>4
<1> HIDE DEF ps, ss, k
<1>8. CASE AppendsPort(w)
  <2>1. PICK b \in Buckets : Lists(w, {b}, {}) /\ Goes(w, "name", b)
    BY <1>8 DEF AppendsPort
  <2>2. worker'[w].pc = "name" /\ worker'[w].bucket = b /\ ~On(w, "name")
    BY <1>8, <2>1 DEF AppendsPort, Goes, On
  <2>3. Cardinality(Owing(t, c)') = k + (IF T(w) = t /\ c = b THEN 1 ELSE 0)
    <3>1. w \notin Owing(t, c)
      BY <1>2, <2>2
    <3>2. Owing(t, c)' = IF T(w) = t /\ c = b THEN Owing(t, c) \cup {w} ELSE Owing(t, c)
      BY <1>2, <2>2, <3>1
    <3> QED
      BY <1>7, <3>1, <3>2
  <2>4. /\ Len(target_results'[t].ports[c]) =
             Len(ps) + (IF T(w) = t /\ c \in {b} THEN 1 ELSE 0)
        /\ Len(target_results'[t].services[c]) =
             Len(ss) + (IF T(w) = t /\ c \in {} THEN 1 ELSE 0)
    BY <1>6, <2>1
  <2> QED
    BY <1>4, <1>7, <2>3, <2>4
<1>9. CASE AppendsService(w)
  <2>1. PICK b : b = worker[w].bucket
    OBVIOUS
  <2>2. Lists(w, {}, {b}) /\ On(w, "name") /\ worker'[w].pc = "idle"
    BY <1>1, <1>9, <2>1 DEF AppendsService
  <2>3. Cardinality(Owing(t, c)') = k - (IF T(w) = t /\ c = b THEN 1 ELSE 0)
    <3>1. w \in Owing(t, c) <=> T(w) = t /\ c = b
      BY <1>2, <2>1, <2>2
    <3>2. Owing(t, c)' = Owing(t, c) \ {w}
      BY <1>2, <2>2
    <3>3. CASE T(w) = t /\ c = b
      BY <1>7, <3>1, <3>2, <3>3
    <3>4. CASE ~(T(w) = t /\ c = b)
      <4>1. Owing(t, c)' = Owing(t, c)
        BY <1>7, <3>1, <3>2, <3>4
      <4>2. Cardinality(Owing(t, c)') = k /\ k \in Nat
        BY <1>7, <4>1
      <4>3. k = k - (IF T(w) = t /\ c = b THEN 1 ELSE 0)
        BY <3>4, <4>2
      <4> QED
        BY <4>2, <4>3
    <3> QED
      BY <3>3, <3>4
  <2>4. /\ Len(target_results'[t].ports[c]) =
             Len(ps) + (IF T(w) = t /\ c \in {} THEN 1 ELSE 0)
        /\ Len(target_results'[t].services[c]) =
             Len(ss) + (IF T(w) = t /\ c \in {b} THEN 1 ELSE 0)
    BY <1>6, <2>2
  <2> QED
    BY <1>4, <1>7, <2>3, <2>4
<1>10. CASE AppendsBoth(w)
  <2>1. PICK b \in Buckets : Lists(w, {b}, {b})
    BY <1>10 DEF AppendsBoth
  <2>2. worker'[w].pc = "idle" /\ ~On(w, "name")
    BY <1>1, <1>10 DEF AppendsBoth, On
  <2>3. Cardinality(Owing(t, c)') = k
    <3>1. Owing(t, c)' = Owing(t, c)
      BY <1>2, <1>7, <2>2
    <3> QED
      BY <1>7, <3>1
  <2>4. /\ Len(target_results'[t].ports[c]) =
             Len(ps) + (IF T(w) = t /\ c \in {b} THEN 1 ELSE 0)
        /\ Len(target_results'[t].services[c]) =
             Len(ss) + (IF T(w) = t /\ c \in {b} THEN 1 ELSE 0)
    BY <1>6, <2>1
  <2> QED
    BY <1>4, <1>7, <2>3, <2>4
<1>11. CASE AppendsNothing(w)
  <2>1. target_results' = target_results /\ ~On(w, "name") /\ worker'[w].pc # "name"
    <3>1. ASSUME NEW l, NEW b, Goes(w, l, b) PROVE worker'[w].pc = l
      BY <3>1 DEF Goes
    <3> QED
      BY <1>1, <1>11, <3>1 DEF AppendsNothing, On
  <2>2. Cardinality(Owing(t, c)') = k
    <3>1. Owing(t, c)' = Owing(t, c)
      BY <1>2, <1>7, <2>1
    <3> QED
      BY <1>7, <3>1
  <2> QED
    BY <1>7, <2>1, <2>2 DEF ps, ss
<1> QED
  BY <1>8, <1>9, <1>10, <1>11 DEF WorkStep

\* The clean-up of the report takes no port from a list.
LEMMA ReportKeeps ==
  ASSUME TypeOK, Quiet, Lengths, ReportTarget
  PROVE  \A t \in Targets, b \in Buckets :
           /\ Owing(t, b) = {}
           /\ Len(target_results[t].ports[b]) = Len(target_results[t].services[b])
           /\ Recorded(target_results'[t], b) = Recorded(target_results[t], b)
           /\ Len(target_results'[t].ports[b]) = Len(target_results'[t].services[b])
<1> TAKE t \in Targets, b \in Buckets
<1>1. Owing(t, b) = {} /\ Cardinality({}) = 0
  BY FS_EmptySet DEF ReportTarget, Quiet, Owing, On
<1>2. Len(target_results[t].services[b]) \in Nat /\ target_results[t] \in Results
  BY DEF TypeOK, Results
<1>3. Len(target_results[t].ports[b]) = Len(target_results[t].services[b])
  <2> DEFINE x == Len(target_results[t].ports[b])
             y == Len(target_results[t].services[b])
             k == Cardinality(Owing(t, b))
  <2>1. x = y + k
    BY DEF Lengths
  <2>2. k = 0 /\ y \in Nat
    BY <1>1, <1>2
  <2> HIDE DEF x, y, k
  <2>3. x = y
    BY <2>1, <2>2
  <2> QED
    BY <2>3 DEF x, y
<1> DEFINE s == SyncAndDeduplicate(target_results[t])
<1>4. Recorded(s, b) = Recorded(target_results[t], b) /\ Len(s.ports[b]) = Len(s.services[b])
  BY <1>2, <1>3, SyncEvens
<1>5. target_results'[t] = target_results[t] \/ target_results'[t] = s
  BY DEF ReportTarget, Write, TypeOK
<1> QED
  BY <1>1, <1>3, <1>4, <1>5

LEMMA NextLengths ==
  TypeOK /\ Raised /\ PortsOnly /\ Quiet /\ Lengths /\ [Next]_vars => Lengths'
<1> SUFFICES ASSUME TypeOK, Raised, PortsOnly, Quiet, Lengths, [Next]_vars PROVE Lengths'
  OBVIOUS
<1>1. ASSUME NEW w \in Workers, Step(w), ~Take(w)
      PROVE  Lengths'
  BY <1>1, WorkStepEffect, WorkLengths
<1>2. CASE \A w \in Workers : Step(w) => Take(w)
  <2>1. ASSUME NEW t, NEW b PROVE Owing(t, b)' = Owing(t, b)
    BY <1>2, OthersOwing
  <2>2. CASE ReportTarget
    <3>1. ASSUME NEW t \in Targets, NEW b \in Buckets
          PROVE  Len(target_results'[t].ports[b]) =
                   Len(target_results'[t].services[b]) + Cardinality(Owing(t, b)')
      <4>1. /\ Owing(t, b)' = {}
            /\ Len(target_results'[t].ports[b]) = Len(target_results'[t].services[b])
        BY <2>1, <2>2, ReportKeeps
      <4>2. target_results' \in [Targets -> Results]
        BY NextType DEF TypeOK
      <4>3. Len(target_results'[t].services[b]) \in Nat
        BY <4>2 DEF Results
      <4>4. Cardinality(Owing(t, b)') = 0
        BY <4>1, FS_EmptySet
      <4> DEFINE x == Len(target_results'[t].ports[b])
                 y == Len(target_results'[t].services[b])
      <4>5. x = y /\ y \in Nat
        BY <4>1, <4>3
      <4> HIDE DEF x, y
      <4>6. x = y + Cardinality(Owing(t, b)')
        BY <4>4, <4>5
      <4> QED
        BY <4>6 DEF x, y
    <3> QED
      BY <3>1 DEF Lengths
  <2>3. CASE target_results' = target_results
    BY <2>1, <2>3 DEF Lengths
  <2>4. ReportTarget \/ target_results' = target_results
    <3>1. CASE UNCHANGED vars \/ Main
      BY <3>1 DEF Main, FinishScan, FinishReport, vars
    <3>2. ASSUME NEW w \in Workers, Take(w) PROVE target_results' = target_results
      BY <3>2 DEF Take
    <3> QED
      BY <1>2, <3>1, <3>2 DEF Next, Terminated
  <2> QED
    BY <2>2, <2>3, <2>4
<1> QED
  BY <1>1, <1>2

-----------------------------------------------------------------------------
(* A scan implements VerdictLedger *)

Held(n) == \E w \in Workers : worker[w].job = n

\* A thread that owes a service left its port in the bucket of that service, and a job that
\* was taken is held by a thread or has a verdict, whatever raised.
Settled ==
  /\ \A n \in DOMAIN Jobs, w \in Workers, b \in Buckets :
       worker[w].job = n /\ worker[w].pc = "name" /\ worker[w].bucket = b => In(n, b)
  /\ \A n \in DOMAIN Jobs : n <= taken => Held(n) \/ \E b \in Buckets : In(n, b)

LEMMA InitSettled == Init => Settled
<1> SUFFICES ASSUME Init PROVE Settled
  OBVIOUS
<1>1. taken = 0 /\ \A w \in Workers : worker[w].pc = "idle"
  BY DEF Init, Idle
<1>2. DOMAIN Jobs = 1..Len(Jobs) /\ Len(Jobs) \in Nat
  BY JobsType, ScanAssumption DEF Init
<1> QED
  BY <1>1, <1>2 DEF Settled

\* What a thread leaves behind for its job.
LEMMA WorkSettles ==
  ASSUME TypeOK, Settled, NEW w \in Workers, WorkStep(w), NEW j, j = worker[w].job
  PROVE  /\ j \in DOMAIN Jobs
         /\ \A n \in DOMAIN Jobs, c \in Buckets : In(n, c) => In(n, c)'
         /\ \A b \in Buckets : worker'[w].pc = "name" /\ worker'[w].bucket = b => In(j, b)'
         /\ Leaves(w) => \E b \in Buckets : In(j, b)'
<1>1. /\ j \in DOMAIN Jobs /\ Jobs[j] = Jobs[worker[w].job] /\ Jobs[j] = <<T(w), P(w)>>
      /\ worker[w].bucket \in Buckets
      /\ ~On(w, "idle") /\ scan' = scan /\ "open_ports" \in Buckets
  BY BusyWorker, JobsType DEF WorkStep, T, P, Buckets, PORT_TO_SERVICES
<1>2. Leaves(w) => worker'[w].pc = "idle"
  BY WorkMoves
<1>3. \A n \in DOMAIN Jobs, c \in Buckets : In(n, c) => In(n, c)'
  BY WorkIn
<1>4. CASE AppendsPort(w)
  <2>1. PICK b \in Buckets : Lists(w, {b}, {}) /\ Goes(w, "name", b)
    BY <1>4 DEF AppendsPort
  <2>2. worker'[w].bucket = b /\ ~Leaves(w)
    BY <1>2, <2>1 DEF Goes
  <2>3. In(j, b)'
    BY <1>1, <2>1, ListsIn
  <2> QED
    BY <1>1, <1>3, <2>2, <2>3
<1>5. CASE AppendsService(w)
  <2>1. worker'[w].pc = "idle" /\ worker[w].pc = "name"
    BY <1>2, <1>5 DEF AppendsService, On
  <2>2. PICK b \in Buckets : b = worker[w].bucket
    BY <1>1
  <2>3. In(j, b)
    BY <1>1, <2>1, <2>2 DEF Settled
  <2> QED
    BY <1>1, <1>3, <2>1, <2>3
<1>6. CASE AppendsBoth(w)
  <2>1. PICK b \in Buckets : Lists(w, {b}, {b})
    BY <1>6 DEF AppendsBoth
  <2>2. worker'[w].pc = "idle"
    BY <1>2, <1>6 DEF AppendsBoth
  <2>3. In(j, b)'
    BY <1>1, <2>1, ListsIn
  <2> QED
    BY <1>1, <1>3, <2>2, <2>3
<1>7. CASE AppendsNothing(w)
  <2>1. worker'[w].pc # "name"
    <3>1. ASSUME NEW l, NEW b, Goes(w, l, b) PROVE worker'[w].pc = l
      BY <3>1 DEF Goes
    <3> QED
      BY <1>2, <1>7, <3>1 DEF AppendsNothing
  <2>2. Leaves(w) => P(w) \in Recorded(target_results[T(w)], "open_ports")
    <3>1. ASSUME NEW l, NEW b, Goes(w, l, b) PROVE worker'[w].pc = l
      BY <3>1 DEF Goes
    <3> QED
      BY <1>2, <1>7, <3>1 DEF AppendsNothing
  <2>3. Leaves(w) => In(j, "open_ports")
    BY <1>1, <2>2 DEF In
  <2> QED
    BY <1>1, <1>3, <2>1, <2>3
<1> QED
  BY <1>4, <1>5, <1>6, <1>7 DEF WorkStep

LEMMA NextSettled ==
  TypeOK /\ Raised /\ PortsOnly /\ Quiet /\ Lengths /\ Settled /\ [Next]_vars => Settled'
<1> SUFFICES ASSUME TypeOK, Raised, PortsOnly, Quiet, Lengths, Settled, [Next]_vars
             PROVE  Settled'
  OBVIOUS
<1>1. /\ scan' = scan /\ Jobs' = Jobs /\ DOMAIN Jobs \subseteq Nat /\ taken \in Nat
      /\ \A m \in DOMAIN Jobs : Jobs[m][1] \in Targets
  BY ScanStays, JobsFixed, JobsType, ScanAssumption DEF TypeOK
<1>2. CASE UNCHANGED vars \/ FinishScan \/ FinishReport
  <2>1. UNCHANGED <<target_results, taken, worker>>
    BY <1>2 DEF vars, FinishScan, FinishReport
  <2> QED
    BY <1>1, <2>1 DEF Settled, Held, In
<1>3. CASE ReportTarget
  <2>1. UNCHANGED <<taken, worker>>
    BY <1>3 DEF ReportTarget
  <2>2. \A n \in DOMAIN Jobs, b \in Buckets : In(n, b)' <=> In(n, b)
    BY <1>1, <1>3, ReportKeeps DEF In
  <2> QED
    BY <1>1, <2>1, <2>2 DEF Settled, Held
<1>4. ASSUME NEW w \in Workers, Take(w)
      PROVE  Settled'
  <2>1. /\ worker'[w].pc = "probe" /\ worker'[w].job = taken + 1
        /\ worker[w].job = 0 /\ taken' = taken + 1
        /\ \A v \in Workers \ {w} : worker'[v] = worker[v]
        /\ target_results' = target_results
    BY <1>4, TakeType
  <2>2. \A n \in DOMAIN Jobs : (Held(n) /\ n # 0) \/ n = taken + 1 => Held(n)'
    BY <2>1 DEF Held
  <2>3. \A n \in DOMAIN Jobs : n # 0 /\ (n <= taken + 1 => n <= taken \/ n = taken + 1)
    BY <1>1, JobsType, ScanAssumption DEF TypeOK
  <2>4. \A n, b : In(n, b)' <=> In(n, b)
    BY <1>1, <2>1 DEF In
  <2> QED
    BY <1>1, <2>1, <2>2, <2>3, <2>4 DEF Settled
<1>5. ASSUME NEW w \in Workers, WorkStep(w)
      PROVE  Settled'
  <2>1. PICK j : j = worker[w].job
    OBVIOUS
  <2>2. /\ taken' = taken /\ \A v \in Workers \ {w} : worker'[v] = worker[v]
        /\ Leaves(w) \/ worker'[w].job = j
        /\ worker'[w].pc = "name" => worker'[w].job = j
    BY <1>5, <2>1, WorkMoves DEF WorkStep
  <2>3. /\ \A n \in DOMAIN Jobs, c \in Buckets : In(n, c) => In(n, c)'
        /\ \A b \in Buckets : worker'[w].pc = "name" /\ worker'[w].bucket = b => In(j, b)'
        /\ Leaves(w) => \E b \in Buckets : In(j, b)'
    BY <1>5, <2>1, WorkSettles
  <2>4. ASSUME NEW n \in DOMAIN Jobs, NEW v \in Workers, NEW b \in Buckets,
               worker'[v].job = n, worker'[v].pc = "name", worker'[v].bucket = b
        PROVE  In(n, b)'
    BY <2>2, <2>3, <2>4 DEF Settled
  <2>5. ASSUME NEW n \in DOMAIN Jobs, n <= taken
        PROVE  Held(n)' \/ \E b \in Buckets : In(n, b)'
    <3>1. CASE n = j
      BY <2>2, <2>3, <3>1 DEF Held
    <3>2. CASE n # j
      <4>1. Held(n) => Held(n)'
        BY <2>1, <2>2, <3>2 DEF Held
      <4> QED
        BY <2>3, <2>5, <4>1 DEF Settled
    <3> QED
      BY <3>1, <3>2
  <2> QED
    BY <1>1, <2>2, <2>4, <2>5 DEF Settled
<1> QED
  BY <1>2, <1>3, <1>4, <1>5, WorkStepEffect DEF Next, Main, Terminated

Keys == Targets \X Ports

LEMMA JobsAreKeys ==
  ASSUME scan \in ScanType, NEW n \in DOMAIN Jobs
  PROVE  Jobs[n] \in Keys /\ Jobs[n] = <<Jobs[n][1], Jobs[n][2]>>
<1>1. Jobs[n][1] \in Targets /\ Jobs[n][2] \in Ports /\ Jobs[n] = <<Jobs[n][1], Jobs[n][2]>>
  BY JobsType
<1> QED
  BY <1>1 DEF Keys

\* The key of the job a thread holds is pending, and stays so until it lets go of the job.
LEMMA PendingWork ==
  ASSUME TypeOK, NEW w \in Workers, WorkStep(w), NEW k, k = Jobs[worker[w].job]
  PROVE  /\ k \in PendingKeys /\ k \in Keys /\ k = <<T(w), P(w)>>
         /\ PendingKeys' = PendingKeys
              \/ (Leaves(w) /\ PendingKeys' = PendingKeys \ {k})
<1> DEFINE Unfinished == {m \in DOMAIN Jobs : m > taken \/ \E v \in Workers : worker[v].job = m}
           j == worker[w].job
<1>1. /\ j \in DOMAIN Jobs /\ Jobs' = Jobs /\ taken' = taken
      /\ \A v \in Workers \ {w} : worker'[v] = worker[v]
      /\ Leaves(w) \/ worker'[w].job = j
      /\ Leaves(w) => worker'[w].job = 0
      /\ scan \in ScanType /\ DOMAIN Jobs = 1..Len(Jobs)
  BY BusyWorker, JobsFixed, JobsType, WorkMoves DEF WorkStep
<1>2. k \in Keys /\ k = <<T(w), P(w)>>
  BY <1>1, JobsAreKeys DEF T, P
<1>3. /\ PendingKeys = {Jobs[n] : n \in Unfinished}
      /\ PendingKeys' = {Jobs[n] : n \in Unfinished'}
  BY <1>1 DEF PendingKeys
<1>4. j \in Unfinished
  BY <1>1
<1>5. ~Leaves(w) => Unfinished' = Unfinished
  BY <1>1
<1>6. Unfinished' \subseteq Unfinished /\ Unfinished \ {j} \subseteq Unfinished'
  BY <1>1
<1> HIDE DEF Unfinished, j
<1>7. ~Leaves(w) => PendingKeys' = PendingKeys
  BY <1>3, <1>5
<1>8. PendingKeys' \subseteq PendingKeys /\ PendingKeys \ {k} \subseteq PendingKeys'
  BY <1>3, <1>6 DEF j
<1> QED
  BY <1>2, <1>3, <1>4, <1>7, <1>8 DEF j

\* Its step gives a verdict to that key or to none.
LEMMA WorkGives ==
  ASSUME TypeOK, NEW w \in Workers, WorkStep(w), NEW k \in Keys, k = <<T(w), P(w)>>
  PROVE  /\ \A i \in Keys \ {k} : VerdictsOf(i)' = VerdictsOf(i)
         /\ \/ VerdictsOf(k)' = VerdictsOf(k)
            \/ \E b \in Buckets : VerdictsOf(k)' = VerdictsOf(k) \cup {b}
<1>1. ~On(w, "idle") /\ \A i \in Keys : i = <<i[1], i[2]>> /\ i[1] \in Targets
  BY DEF Keys, WorkStep
<1>2. ASSUME NEW B, NEW S, Lists(w, B, S), NEW i \in Keys, NEW c \in Buckets
      PROVE  c \in VerdictsOf(i)' <=> c \in VerdictsOf(i) \/ (i = k /\ c \in B)
  <2>1. PICK t \in Targets : t = i[1]
    BY <1>1
  <2>2. Recorded(target_results'[t], c) =
          Recorded(target_results[t], c) \cup (IF t = T(w) /\ c \in B THEN {P(w)} ELSE {})
    BY <1>1, <1>2, ListsRecorded
  <2>3. i = k <=> i[1] = T(w) /\ i[2] = P(w)
    BY <1>1
  <2> QED
    BY <2>1, <2>2, <2>3 DEF VerdictsOf
<1>3. \A i \in Keys : VerdictsOf(i) \subseteq Buckets /\ VerdictsOf(i)' \subseteq Buckets
  BY DEF VerdictsOf
<1>4. CASE AppendsPort(w) \/ AppendsBoth(w)
  <2>1. PICK b \in Buckets : \E S : Lists(w, {b}, S)
    BY <1>4 DEF AppendsPort, AppendsBoth
  <2>2. \A i \in Keys, c \in Buckets :
          c \in VerdictsOf(i)' <=> c \in VerdictsOf(i) \/ (i = k /\ c = b)
    BY <1>2, <2>1
  <2>3. \A i \in Keys \ {k} : VerdictsOf(i)' = VerdictsOf(i)
    BY <1>3, <2>2
  <2>4. VerdictsOf(k)' = VerdictsOf(k) \cup {b}
    BY <1>3, <2>2
  <2> QED
    BY <2>3, <2>4
<1>5. CASE AppendsService(w)
  <2>1. PICK S : Lists(w, {}, S)
    BY <1>5 DEF AppendsService
  <2>2. \A i \in Keys, c \in Buckets : c \in VerdictsOf(i)' <=> c \in VerdictsOf(i)
    BY <1>2, <2>1
  <2>3. \A i \in Keys : VerdictsOf(i)' = VerdictsOf(i)
    BY <1>3, <2>2
  <2> QED
    BY <2>3
<1>6. CASE AppendsNothing(w)
  BY <1>6 DEF AppendsNothing, VerdictsOf
<1> QED
  BY <1>4, <1>5, <1>6 DEF WorkStep

\* What the ledger calls the phase of a scan.
LedgerPhase == IF phase = "scan" THEN "open" ELSE "published"

LEMMA InitLedger == Init => ledger!Init
<1> SUFFICES ASSUME Init PROVE ledger!Init
  OBVIOUS
<1>1. scan \in ScanType
  BY ScanAssumption DEF Init
<1>2. PendingKeys \subseteq Keys
  BY <1>1, JobsAreKeys DEF PendingKeys, Keys
<1>3. ASSUME NEW k \in Keys PROVE VerdictsOf(k) = {}
  BY <1>3 DEF Keys, VerdictsOf, Recorded, Init, initialize_target_results
<1>4. LedgerPhase = "open"
  BY DEF Init, LedgerPhase
<1> QED
  BY <1>2, <1>3, <1>4 DEF ledger!Init, Keys, LedgerPhase

\* A step that changes none of what the ledger sees.
LEMMA LedgerStutters ==
  ASSUME UNCHANGED <<PendingKeys, LedgerPhase>>,
         \A k \in Keys : VerdictsOf(k)' = VerdictsOf(k)
  PROVE  UNCHANGED ledger!vars
  BY DEF ledger!vars, Keys, LedgerPhase

LEMMA WorkLedger ==
  ASSUME TypeOK, Raised, PortsOnly, Quiet, Settled, NEW w \in Workers, Step(w), ~Take(w)
  PROVE  [ledger!Next]_(ledger!vars)
<1>1. WorkStep(w)
  BY WorkStepEffect
<1>2. PICK k, j : k = Jobs[worker[w].job] /\ j = worker[w].job
  OBVIOUS
<1>3. /\ k \in PendingKeys /\ k \in Keys /\ k = <<T(w), P(w)>>
      /\ PendingKeys' = PendingKeys \/ (Leaves(w) /\ PendingKeys' = PendingKeys \ {k})
  BY <1>1, <1>2, PendingWork
<1>4. /\ \A i \in Keys \ {k} : VerdictsOf(i)' = VerdictsOf(i)
      /\ \/ VerdictsOf(k)' = VerdictsOf(k)
         \/ \E b \in Buckets : VerdictsOf(k)' = VerdictsOf(k) \cup {b}
  BY <1>1, <1>3, WorkGives
<1>5. /\ phase = "scan" /\ phase' = "scan" /\ LedgerPhase = "open" /\ LedgerPhase' = "open"
      /\ scan' = scan /\ Jobs' = Jobs
      /\ j \in DOMAIN Jobs /\ k = Jobs[j]
  BY <1>1, <1>2, BusyWorker, JobsFixed DEF WorkStep, Quiet, LedgerPhase
<1>6. CASE \E b \in Buckets : VerdictsOf(k)' = VerdictsOf(k) \cup {b}
  <2>1. ledger!Give(k)
    BY <1>3, <1>4, <1>5, <1>6 DEF ledger!Give, Keys, LedgerPhase
  <2> QED
    BY <1>3, <2>1 DEF ledger!Next, Keys
<1>7. CASE VerdictsOf(k)' = VerdictsOf(k) /\ PendingKeys' = PendingKeys
  BY <1>4, <1>5, <1>7, LedgerStutters
<1>8. CASE VerdictsOf(k)' = VerdictsOf(k) /\ Leaves(w) /\ PendingKeys' = PendingKeys \ {k}
  <2>1. VerdictsOf(k) # {}
    <3>1. \E b \in Buckets : In(j, b)'
      BY <1>1, <1>2, <1>8, WorkSettles
    <3>2. (\E b \in Buckets : In(j, b)') => VerdictsOf(k)' # {}
      BY <1>5 DEF In, VerdictsOf
    <3> QED
      BY <1>8, <3>1, <3>2
  <2>2. \A i \in Keys : VerdictsOf(i)' = VerdictsOf(i)
    BY <1>4, <1>8
  <2>3. ledger!Close(k)
    BY <1>3, <1>5, <1>8, <2>1, <2>2 DEF ledger!Close, ledger!Kept, Keys, LedgerPhase
  <2> QED
    BY <1>3, <2>3 DEF ledger!Next, Keys
<1> QED
  BY <1>3, <1>4, <1>6, <1>7, <1>8

LEMMA NextLedger ==
  TypeOK /\ Raised /\ PortsOnly /\ Quiet /\ Lengths /\ Settled /\ [Next]_vars
    => [ledger!Next]_(ledger!vars)
<1> SUFFICES ASSUME TypeOK, Raised, PortsOnly, Quiet, Lengths, Settled, [Next]_vars
             PROVE  [ledger!Next]_(ledger!vars)
  OBVIOUS
<1>1. scan' = scan /\ Jobs' = Jobs
  BY ScanStays, JobsFixed
<1>2. CASE UNCHANGED vars \/ FinishReport
  <2>1. UNCHANGED <<target_results, taken, worker>> /\ LedgerPhase' = LedgerPhase
    BY <1>2 DEF vars, FinishReport, LedgerPhase
  <2> QED
    BY <1>1, <2>1, LedgerStutters DEF PendingKeys, VerdictsOf
<1>3. CASE FinishScan
  <2>1. /\ UNCHANGED <<target_results, taken, worker>>
        /\ phase = "scan" /\ phase' = "report" /\ taken = Len(Jobs)
        /\ \A w \in Workers : worker[w].job = 0
    BY <1>3 DEF FinishScan, TypeOK
  <2>2. PendingKeys = {}
    <3>1. DOMAIN Jobs = 1..Len(Jobs) /\ Len(Jobs) \in Nat
      BY JobsType, ScanAssumption DEF TypeOK
    <3> QED
      BY <2>1, <3>1 DEF PendingKeys
  <2>3. PendingKeys' = PendingKeys
    BY <1>1, <2>1 DEF PendingKeys
  <2>4. LedgerPhase = "open" /\ LedgerPhase' = "published"
    BY <2>1 DEF LedgerPhase
  <2>5. \A k \in Keys : VerdictsOf(k)' = VerdictsOf(k)
    BY <2>1 DEF VerdictsOf
  <2>6. ledger!Publish
    BY <2>2, <2>3, <2>4, <2>5 DEF ledger!Publish, ledger!Kept, Keys, LedgerPhase
  <2> QED
    BY <2>6 DEF ledger!Next
<1>4. CASE ReportTarget
  <2>1. UNCHANGED <<taken, worker, phase>>
    BY <1>4 DEF ReportTarget
  <2>2. \A k \in Keys : VerdictsOf(k)' = VerdictsOf(k)
    BY <1>4, ReportKeeps DEF VerdictsOf, Keys
  <2> QED
    BY <1>1, <2>1, <2>2, LedgerStutters DEF PendingKeys, LedgerPhase
<1>5. ASSUME NEW w \in Workers, Take(w)
      PROVE  [ledger!Next]_(ledger!vars)
  <2>1. /\ worker'[w].job = taken + 1 /\ worker[w].job = 0 /\ taken' = taken + 1
        /\ taken \in Nat
        /\ \A v \in Workers \ {w} : worker'[v] = worker[v]
        /\ UNCHANGED <<target_results, phase>>
    BY <1>5, TakeType
  <2>2. ASSUME NEW m \in DOMAIN Jobs
        PROVE  (m > taken \/ \E v \in Workers : worker[v].job = m) <=>
               (m > taken + 1 \/ \E v \in Workers : worker'[v].job = m)
    <3>1. m \in 1..Len(Jobs) /\ Len(Jobs) \in Nat
      BY JobsType, ScanAssumption DEF TypeOK
    <3>2. m \in Nat \ {0}
      BY <3>1
    <3>3. m > taken <=> m > taken + 1 \/ m = taken + 1
      BY <2>1, <3>2
    <3> QED
      BY <2>1, <3>2, <3>3
  <2>3. PendingKeys' = PendingKeys
    BY <1>1, <2>1, <2>2 DEF PendingKeys
  <2> QED
    BY <1>1, <2>1, <2>3, LedgerStutters DEF LedgerPhase, VerdictsOf
<1> QED
  BY <1>2, <1>3, <1>4, <1>5, WorkLedger DEF Next, Main, Terminated

\* Every step of a scan, with any number of threads, is one the ledger allows: a port gets
\* a verdict only while a job for it runs, no job returns without one, whatever raised, and
\* the clean-up of the report changes no verdict.  A scan is fixed when the pool starts.
THEOREM LedgerKeptHolds == Spec /\ PortsOnly => LedgerKept
<1> DEFINE Inv == TypeOK /\ Raised /\ PortsOnly /\ Quiet /\ Lengths /\ Settled
<1>1. Init /\ PortsOnly => Inv /\ ledger!Init
  BY InitType, InitQuiet, InitLengths, InitSettled, InitLedger
<1>2. Inv /\ [Next]_vars => Inv'
  BY NextType, NextQuiet, NextLengths, NextSettled, ScanStays DEF PortsOnly
<1>3. Inv /\ [Next]_vars => [ledger!Next]_(ledger!vars)
  BY NextLedger
<1> QED
  BY <1>1, <1>2, <1>3, PTL DEF Spec, LedgerKept, ledger!Spec

-----------------------------------------------------------------------------
(* The services are those of the ports *)

\* The lists a busy worker extends, by where it stands before and after.
LEMMA WorkPlaces ==
  ASSUME TypeOK, NEW w \in Workers, WorkStep(w)
  PROVE  \E b \in Buckets :
           \/ /\ Lists(w, {b}, {}) /\ worker[w].pc = "probe"
              /\ worker'[w].pc = "name" /\ worker'[w].bucket = b
           \/ /\ Lists(w, {}, {b}) /\ worker[w].pc = "name" /\ worker[w].bucket = b
              /\ worker'[w].pc = "idle"
           \/ /\ Lists(w, {b}, {b}) /\ worker[w].pc \in {"probe", "give_up"}
              /\ worker'[w].pc = "idle"
           \/ /\ Lists(w, {}, {}) /\ worker[w].pc \in {"probe", "give_up"}
              /\ worker'[w].pc # "name"
<1>1. Leaves(w) => worker'[w].pc = "idle"
  BY WorkMoves
<1>2. worker[w].bucket \in Buckets
  BY BusyWorker DEF WorkStep
<1>3. CASE AppendsPort(w)
  <2>1. PICK b \in Buckets : Lists(w, {b}, {}) /\ Goes(w, "name", b)
    BY <1>3 DEF AppendsPort
  <2>2. worker[w].pc = "probe" /\ worker'[w].pc = "name" /\ worker'[w].bucket = b
    BY <1>3, <2>1 DEF AppendsPort, On, Goes
  <2> QED
    BY <2>1, <2>2
<1>4. CASE AppendsService(w)
  <2>1. PICK b \in Buckets : b = worker[w].bucket
    BY <1>2
  <2>2. /\ Lists(w, {}, {b}) /\ worker[w].pc = "name" /\ worker[w].bucket = b
        /\ worker'[w].pc = "idle"
    BY <1>1, <1>4, <2>1 DEF AppendsService, On
  <2> QED
    BY <2>2
<1>5. CASE AppendsBoth(w)
  BY <1>1, <1>5 DEF AppendsBoth, On
<1>6. CASE AppendsNothing(w)
  <2>1. Lists(w, {}, {})
    BY <1>6 DEF AppendsNothing, Lists, TypeOK
  <2>2. ASSUME NEW l, NEW b, Goes(w, l, b) PROVE worker'[w].pc = l
    BY <2>2 DEF Goes
  <2>3. worker[w].pc \in {"probe", "give_up"} /\ worker'[w].pc # "name"
    BY <1>1, <1>6, <2>2 DEF AppendsNothing, On
  <2> QED
    BY <1>2, <2>1, <2>3
<1> QED
  BY <1>3, <1>4, <1>5, <1>6 DEF WorkStep

\* The ports the services of a bucket are of, and the ports whose service is on its way.
ServicePorts(r, b) == {r.services[b][i].port : i \in DOMAIN r.services[b]}
Owed(t, b) == {P(w) : w \in Owing(t, b)}

LEMMA ListsServices ==
  ASSUME TypeOK, NEW w \in Workers, ~On(w, "idle"), NEW B, NEW S, Lists(w, B, S),
         NEW t \in Targets, NEW c \in Buckets
  PROVE  ServicePorts(target_results'[t], c) =
           ServicePorts(target_results[t], c) \cup (IF t = T(w) /\ c \in S THEN {P(w)} ELSE {})
<1>1. CASE t # T(w)
  BY <1>1 DEF Lists
<1>2. CASE t = T(w) /\ c \notin S
  <2>1. target_results'[T(w)].services[c] = target_results[T(w)].services[c]
    BY <1>2 DEF Lists
  <2> QED
    BY <1>2, <2>1 DEF ServicePorts
<1>3. CASE t = T(w) /\ c \in S
  <2> DEFINE q == target_results[T(w)].services[c]
  <2>1. PICK v \in Services : v.port = P(w) /\ target_results'[T(w)].services[c] = Append(q, v)
    BY <1>3 DEF Lists
  <2>2. q \in Seq(Services)
    BY BusyWorker DEF Results
  <2> HIDE DEF q
  <2>3. /\ DOMAIN q = 1..Len(q) /\ Len(q) \in Nat
        /\ DOMAIN Append(q, v) = 1..(Len(q) + 1)
        /\ Append(q, v)[Len(q) + 1] = v
        /\ \A i \in 1..Len(q) : Append(q, v)[i] = q[i]
    BY <2>2, AppendProperties
  <2>4. {Append(q, v)[i].port : i \in DOMAIN Append(q, v)} =
          {q[i].port : i \in DOMAIN q} \cup {v.port}
    <3>1. \A i \in 1..(Len(q) + 1) : i \in 1..Len(q) \/ i = Len(q) + 1
      BY <2>3
    <3>2. Len(q) + 1 \in 1..(Len(q) + 1) /\ 1..Len(q) \subseteq 1..(Len(q) + 1)
      BY <2>3
    <3>3. ASSUME NEW x \in {Append(q, v)[i].port : i \in DOMAIN Append(q, v)}
          PROVE  x \in {q[i].port : i \in DOMAIN q} \cup {v.port}
      BY <2>3, <3>1
    <3>4. ASSUME NEW i \in DOMAIN q
          PROVE  q[i].port \in {Append(q, v)[k].port : k \in DOMAIN Append(q, v)}
      BY <2>3, <3>2
    <3>5. v.port \in {Append(q, v)[k].port : k \in DOMAIN Append(q, v)}
      BY <2>3, <3>2
    <3> DEFINE before == {q[i].port : i \in DOMAIN q}
               after  == {Append(q, v)[k].port : k \in DOMAIN Append(q, v)}
    <3>6. before \subseteq after /\ v.port \in after /\ \A x \in after : x \in before \cup {v.port}
      BY <3>3, <3>4, <3>5
    <3> HIDE DEF before, after
    <3>7. after = before \cup {v.port}
      BY <3>6
    <3> QED
      BY <3>7 DEF before, after
  <2>5. ServicePorts(target_results[t], c) = {q[i].port : i \in DOMAIN q}
    BY <1>3 DEF ServicePorts, q
  <2>6. ServicePorts(target_results'[t], c) =
          {Append(q, v)[i].port : i \in DOMAIN Append(q, v)}
    BY <1>3, <2>1 DEF ServicePorts
  <2>7. (IF t = T(w) /\ c \in S THEN {P(w)} ELSE {}) = {v.port}
    BY <1>3, <2>1
  <2> QED
    BY <2>4, <2>5, <2>6, <2>7
<1> QED
  BY <1>1, <1>2, <1>3

\* The ports whose service is on its way change by that of the worker that steps.
LEMMA WorkOwed ==
  ASSUME TypeOK, NEW w \in Workers, WorkStep(w), NEW t, NEW c
  PROVE  /\ worker'[w].pc = "name" /\ T(w) = t /\ worker'[w].bucket = c =>
              Owed(t, c)' = Owed(t, c) \cup {P(w)}
         /\ ~(worker'[w].pc = "name" /\ T(w) = t /\ worker'[w].bucket = c) =>
              Owed(t, c) = Owed(t, c)' \cup
                (IF On(w, "name") /\ T(w) = t /\ worker[w].bucket = c THEN {P(w)} ELSE {})
<1>1. /\ Owing(t, c)' = IF worker'[w].pc = "name" /\ T(w) = t /\ worker'[w].bucket = c
                        THEN Owing(t, c) \cup {w} ELSE Owing(t, c) \ {w}
      /\ w \in Owing(t, c) <=> On(w, "name") /\ T(w) = t /\ worker[w].bucket = c
  BY WorkOwing
<1>2. /\ Jobs' = Jobs /\ \A v \in Workers \ {w} : worker'[v] = worker[v]
      /\ worker'[w].pc = "name" => worker'[w].job = worker[w].job
      /\ Owing(t, c) \subseteq Workers
  BY JobsFixed, WorkMoves DEF WorkStep, Owing
<1>3. Owed(t, c)' = {P(v)' : v \in Owing(t, c)'}
  BY DEF Owed
<1>4. \A v \in Workers : v # w \/ worker'[w].pc = "name" => P(v)' = P(v)
  BY <1>2 DEF P
<1>5. CASE worker'[w].pc = "name" /\ T(w) = t /\ worker'[w].bucket = c
  <2>1. Owing(t, c)' = Owing(t, c) \cup {w}
    BY <1>1, <1>5
  <2>2. Owed(t, c)' = {P(v) : v \in Owing(t, c) \cup {w}}
    BY <1>2, <1>3, <1>4, <1>5, <2>1
  <2> QED
    BY <1>5, <2>2 DEF Owed
<1>6. CASE ~(worker'[w].pc = "name" /\ T(w) = t /\ worker'[w].bucket = c)
  <2>1. Owing(t, c)' = Owing(t, c) \ {w}
    BY <1>1, <1>6
  <2>2. Owed(t, c)' = {P(v) : v \in Owing(t, c) \ {w}}
    BY <1>2, <1>3, <1>4, <2>1
  <2> QED
    BY <1>1, <1>6, <2>2 DEF Owed
<1> QED
  BY <1>5, <1>6

\* The ports of a bucket are those of its services and those whose service is on its way,
\* and no list of ports holds a port twice, if no port is scanned twice.
Accounted ==
  Apart => \A t \in Targets, b \in Buckets :
    Recorded(target_results[t], b) = ServicePorts(target_results[t], b) \cup Owed(t, b)
Singly ==
  Apart => \A t \in Targets, b \in Buckets : NoTwice(target_results[t].ports[b])

LEMMA InitAccounted == Init => Accounted /\ Singly
<1> SUFFICES ASSUME Init, NEW t \in Targets, NEW b \in Buckets
             PROVE  /\ NoTwice(target_results[t].ports[b])
                    /\ Recorded(target_results[t], b) =
                         ServicePorts(target_results[t], b) \cup Owed(t, b)
  BY DEF Accounted, Singly
<1>1. target_results[t].ports[b] = <<>> /\ target_results[t].services[b] = <<>>
  BY DEF Init, initialize_target_results
<1>2. Owing(t, b) = {}
  BY DEF Init, Owing, On, Idle
<1> QED
  BY <1>1, <1>2 DEF NoTwice, Recorded, ServicePorts, Owed

LEMMA WorkAccounted ==
  ASSUME TypeOK, Accounted, NEW w \in Workers, WorkStep(w)
  PROVE  Accounted'
<1> SUFFICES ASSUME Apart, NEW t \in Targets, NEW c \in Buckets
             PROVE  Recorded(target_results'[t], c) =
                      ServicePorts(target_results'[t], c) \cup Owed(t, c)'
  BY JobsFixed DEF Accounted, WorkStep
<1>1. ~On(w, "idle")
  BY DEF WorkStep
<1>2. Recorded(target_results[t], c) = ServicePorts(target_results[t], c) \cup Owed(t, c)
  BY DEF Accounted
<1>3. ASSUME NEW B, NEW S, Lists(w, B, S)
      PROVE  /\ Recorded(target_results'[t], c) = Recorded(target_results[t], c)
                  \cup (IF t = T(w) /\ c \in B THEN {P(w)} ELSE {})
             /\ ServicePorts(target_results'[t], c) = ServicePorts(target_results[t], c)
                  \cup (IF t = T(w) /\ c \in S THEN {P(w)} ELSE {})
  BY <1>1, <1>3, ListsRecorded, ListsServices
<1>4. /\ worker'[w].pc = "name" /\ T(w) = t /\ worker'[w].bucket = c =>
           Owed(t, c)' = Owed(t, c) \cup {P(w)}
      /\ ~(worker'[w].pc = "name" /\ T(w) = t /\ worker'[w].bucket = c) =>
           Owed(t, c) = Owed(t, c)' \cup
             (IF On(w, "name") /\ T(w) = t /\ worker[w].bucket = c THEN {P(w)} ELSE {})
  BY WorkOwed
<1>5. PICK b \in Buckets :
        \/ /\ Lists(w, {b}, {}) /\ worker[w].pc = "probe"
           /\ worker'[w].pc = "name" /\ worker'[w].bucket = b
        \/ /\ Lists(w, {}, {b}) /\ worker[w].pc = "name" /\ worker[w].bucket = b
           /\ worker'[w].pc = "idle"
        \/ /\ Lists(w, {b}, {b}) /\ worker[w].pc \in {"probe", "give_up"}
           /\ worker'[w].pc = "idle"
        \/ /\ Lists(w, {}, {}) /\ worker[w].pc \in {"probe", "give_up"}
           /\ worker'[w].pc # "name"
  BY WorkPlaces
<1>6. CASE /\ Lists(w, {b}, {}) /\ worker[w].pc = "probe"
           /\ worker'[w].pc = "name" /\ worker'[w].bucket = b
  BY <1>2, <1>3, <1>4, <1>6 DEF On
<1>7. CASE /\ Lists(w, {}, {b}) /\ worker[w].pc = "name" /\ worker[w].bucket = b
           /\ worker'[w].pc = "idle"
  BY <1>2, <1>3, <1>4, <1>7 DEF On
<1>8. CASE /\ Lists(w, {b}, {b}) /\ worker[w].pc \in {"probe", "give_up"}
           /\ worker'[w].pc = "idle"
  BY <1>2, <1>3, <1>4, <1>8 DEF On
<1>9. CASE /\ Lists(w, {}, {}) /\ worker[w].pc \in {"probe", "give_up"}
           /\ worker'[w].pc # "name"
  BY <1>2, <1>3, <1>4, <1>9 DEF On
<1> QED
  BY <1>5, <1>6, <1>7, <1>8, <1>9

LEMMA WorkSingly ==
  ASSUME TypeOK, VerdictInv, Singly, NEW w \in Workers, WorkStep(w)
  PROVE  Singly'
<1>1. /\ ~On(w, "idle") /\ T(w) \in Targets /\ P(w) \in Ports
      /\ worker[w].job \in DOMAIN Jobs /\ (Apart' <=> Apart)
  BY BusyWorker, JobsFixed DEF WorkStep
<1> SUFFICES ASSUME Apart, NEW t \in Targets, NEW c \in Buckets
             PROVE  NoTwice(target_results'[t].ports[c])
  BY <1>1 DEF Singly
<1>2. target_results[t].ports[c] \in Seq(Ports) /\ NoTwice(target_results[t].ports[c])
  BY DEF TypeOK, Results, Singly
<1>3. worker[w].pc \in {"probe", "give_up"} => P(w) \notin Recorded(target_results[T(w)], c)
  BY <1>1 DEF Apart, VerdictInv, JobVerdict, Unseen, In, T, P
<1>4. PICK B, S : Lists(w, B, S) /\ (worker[w].pc \in {"probe", "give_up"} \/ B = {})
  BY WorkPlaces
<1>5. target_results'[t].ports[c] =
        IF t = T(w) /\ c \in B THEN Append(target_results[t].ports[c], P(w))
                               ELSE target_results[t].ports[c]
  BY <1>4 DEF Lists
<1>6. CASE t = T(w) /\ c \in B
  <2> DEFINE q == target_results[t].ports[c]
             p == P(w)
  <2>1. p \in Ports /\ q \in Seq(Ports) /\ NoTwice(q) /\ \A i \in DOMAIN q : q[i] # p
    BY <1>1, <1>2, <1>3, <1>4, <1>6 DEF Recorded
  <2> HIDE DEF q, p
  <2>2. NoTwice(Append(q, p))
    BY <2>1, AppendNoTwice
  <2> QED
    BY <1>5, <1>6, <2>2 DEF q, p
<1>7. CASE ~(t = T(w) /\ c \in B)
  BY <1>2, <1>5, <1>7
<1> QED
  BY <1>6, <1>7

\* The clean-up of the report finds nothing to do.
LEMMA ReportAccounted ==
  ASSUME TypeOK, Quiet, Lengths, Singly, Apart, ReportTarget,
         NEW t \in Targets, NEW b \in Buckets
  PROVE  /\ target_results'[t].ports[b] = target_results[t].ports[b]
         /\ target_results'[t].services[b] = target_results[t].services[b]
<1> DEFINE r == target_results[t]
           s == SyncAndDeduplicate(r)
<1>1. r \in Results /\ r.ports[b] \in Seq(Ports) /\ r.services[b] \in Seq(Services)
  BY DEF TypeOK, Results
<1>2. Clean(r.ports[b], r.services[b])
  BY ReportKeeps DEF Singly, Clean, NoTwice
<1>3. target_results'[t] = r \/ target_results'[t] = s
  BY DEF ReportTarget, Write, TypeOK
<1> HIDE DEF r, s
<1>4. s.ports[b] = r.ports[b] /\ s.services[b] = r.services[b]
  <2>1. CASE b \in SyncedBuckets
    <3>1. /\ s.ports[b] = At(r.ports[b], Kept(r.ports[b], r.services[b]))
          /\ s.services[b] = At(r.services[b], Kept(r.ports[b], r.services[b]))
      BY <1>1, <2>1, SyncFields DEF s
    <3> QED
      BY <1>1, <1>2, <3>1, CleanFixed
  <2>2. CASE b \notin SyncedBuckets
    BY <1>1, <2>2, SyncFields DEF s
  <2> QED
    BY <2>1, <2>2
<1> QED
  BY <1>3, <1>4 DEF r

LEMMA NextAccounted ==
  TypeOK /\ Raised /\ PortsOnly /\ VerdictInv /\ Quiet /\ Lengths /\ Accounted /\ Singly
    /\ [Next]_vars => Accounted' /\ Singly'
<1> SUFFICES ASSUME TypeOK, Raised, PortsOnly, VerdictInv, Quiet, Lengths, Accounted, Singly,
                    [Next]_vars
             PROVE  Accounted' /\ Singly'
  OBVIOUS
<1>1. Apart' <=> Apart
  BY ScanStays, JobsFixed
<1>2. ASSUME NEW w \in Workers, Step(w), ~Take(w)
      PROVE  Accounted' /\ Singly'
  BY <1>2, WorkStepEffect, WorkAccounted, WorkSingly
<1>3. CASE \A w \in Workers : Step(w) => Take(w)
  <2>1. ASSUME NEW t, NEW b PROVE Owed(t, b)' = Owed(t, b)
    <3>1. Owing(t, b)' = Owing(t, b) /\ Jobs' = Jobs
      BY <1>3, OthersOwing, ScanStays, JobsFixed
    <3>2. \A w \in Workers : On(w, "name") => worker'[w].job = worker[w].job
      <4>1. CASE UNCHANGED vars \/ Main
        BY <4>1 DEF Main, FinishScan, ReportTarget, FinishReport, vars
      <4>2. ASSUME NEW v \in Workers, Take(v)
            PROVE  \A w \in Workers : On(w, "name") => worker'[w].job = worker[w].job
        BY <4>2, TakeType DEF On
      <4> QED
        BY <1>3, <4>1, <4>2 DEF Next, Terminated
    <3>3. \A w \in Owing(t, b) : P(w)' = P(w)
      BY <3>1, <3>2 DEF P, Owing
    <3>4. Owed(t, b)' = {P(w)' : w \in Owing(t, b)'}
      BY DEF Owed
    <3> QED
      BY <3>1, <3>3, <3>4 DEF Owed
  <2>2. CASE Apart /\ ReportTarget
    <3>1. ASSUME NEW t \in Targets, NEW b \in Buckets
          PROVE  /\ Recorded(target_results'[t], b) = Recorded(target_results[t], b)
                 /\ ServicePorts(target_results'[t], b) = ServicePorts(target_results[t], b)
                 /\ NoTwice(target_results'[t].ports[b])
      BY <2>2, ReportAccounted DEF Recorded, ServicePorts, Singly
    <3> QED
      BY <1>1, <2>1, <3>1 DEF Accounted, Singly
  <2>3. CASE target_results' = target_results
    BY <1>1, <2>1, <2>3 DEF Accounted, Singly
  <2>4. CASE ~Apart
    BY <1>1, <2>4 DEF Accounted, Singly
  <2>5. ReportTarget \/ target_results' = target_results
    <3>1. CASE UNCHANGED vars \/ Main
      BY <3>1 DEF Main, FinishScan, FinishReport, vars
    <3>2. ASSUME NEW w \in Workers, Take(w) PROVE target_results' = target_results
      BY <3>2 DEF Take
    <3> QED
      BY <1>3, <3>1, <3>2 DEF Next, Terminated
  <2> QED
    BY <2>2, <2>3, <2>4, <2>5
<1> QED
  BY <1>2, <1>3

\* The services are appended in the order of the ports: by one thread, or with them.
Calm == scan.max_threads = 1 \/ scan.kind = "ipproto"

\* The lists of the services are twins of the lists of ports, but for the one bucket whose
\* last port waits for its service.
Beside ==
  Calm =>
    /\ \A w \in Workers, t \in Targets, b \in Buckets :
         On(w, "name") /\ T(w) = t /\ worker[w].bucket = b =>
           Behind(target_results[t].ports[b], target_results[t].services[b], P(w))
    /\ \A t \in Targets, b \in Buckets :
         Owing(t, b) = {} => Twin(target_results[t].ports[b], target_results[t].services[b])

LEMMA InitBeside == Init => Beside
<1> SUFFICES ASSUME Init PROVE Beside
  OBVIOUS
<1>1. \A w \in Workers : ~On(w, "name")
  BY DEF Init, Idle, On
<1>2. ASSUME NEW t \in Targets, NEW b \in Buckets
      PROVE  Twin(target_results[t].ports[b], target_results[t].services[b])
  <2>1. target_results[t].ports[b] = <<>> /\ target_results[t].services[b] = <<>>
    BY DEF Init, initialize_target_results
  <2> QED
    BY <2>1 DEF Twin
<1> QED
  BY <1>1, <1>2 DEF Beside

LEMMA WorkBeside ==
  ASSUME TypeOK, Quiet, Beside, NEW w \in Workers, WorkStep(w), Calm
  PROVE  Beside'
<1>1. /\ ~On(w, "idle") /\ scan' = scan /\ Jobs' = Jobs
      /\ T(w) \in Targets /\ P(w) \in Ports
      /\ \A v \in Workers \ {w} : worker'[v] = worker[v]
      /\ worker'[w].pc = "name" => worker'[w].job = worker[w].job /\ scan.kind # "ipproto"
  BY BusyWorker, JobsFixed, WorkMoves DEF WorkStep
\* Only the thread that steps can owe a service, before or after.
<1>2. \A v \in Workers \ {w} : ~On(v, "name") /\ ~On(v, "name")'
  <2>1. CASE scan.kind = "ipproto"
    BY <1>1, <2>1 DEF Quiet, On
  <2>2. CASE scan.max_threads = 1
    BY <1>1, <2>2 DEF Quiet, On
  <2> QED
    BY <2>1, <2>2 DEF Calm
<1>3. /\ T(w)' = T(w) \/ worker'[w].pc # "name"
      /\ P(w)' = P(w) \/ worker'[w].pc # "name"
  BY <1>1 DEF T, P
<1>4. ASSUME NEW t \in Targets, NEW b \in Buckets
      PROVE  /\ target_results[t].ports[b] \in Seq(Ports)
             /\ target_results[t].services[b] \in Seq(Services)
  BY DEF TypeOK, Results
<1>5. ASSUME NEW t \in Targets, NEW b \in Buckets,
             ~(On(w, "name") /\ T(w) = t /\ worker[w].bucket = b)
      PROVE  Twin(target_results[t].ports[b], target_results[t].services[b])
  <2>1. Owing(t, b) = {}
    BY <1>2, <1>5 DEF Owing
  <2> QED
    BY <2>1 DEF Beside
<1>6. ASSUME NEW B, NEW S, Lists(w, B, S), NEW t \in Targets, NEW c \in Buckets
      PROVE  /\ target_results'[t].ports[c] =
                  IF t = T(w) /\ c \in B THEN Append(target_results[t].ports[c], P(w))
                                         ELSE target_results[t].ports[c]
             /\ IF t = T(w) /\ c \in S
                THEN \E v \in Services : /\ v.port = P(w)
                       /\ target_results'[t].services[c] =
                            Append(target_results[t].services[c], v)
                ELSE target_results'[t].services[c] = target_results[t].services[c]
  BY <1>6 DEF Lists
\* The lists are twins after the step, of every target and bucket.
<1> DEFINE Twins == \A t \in Targets, c \in Buckets :
                      Twin(target_results'[t].ports[c], target_results'[t].services[c])
<1>7. Twins /\ worker'[w].pc # "name" => Beside'
  BY <1>2 DEF Beside, On
<1>8. PICK b \in Buckets :
        \/ /\ Lists(w, {b}, {}) /\ worker[w].pc = "probe"
           /\ worker'[w].pc = "name" /\ worker'[w].bucket = b
        \/ /\ Lists(w, {}, {b}) /\ worker[w].pc = "name" /\ worker[w].bucket = b
           /\ worker'[w].pc = "idle"
        \/ /\ Lists(w, {b}, {b}) /\ worker[w].pc \in {"probe", "give_up"}
           /\ worker'[w].pc = "idle"
        \/ /\ Lists(w, {}, {}) /\ worker[w].pc \in {"probe", "give_up"}
           /\ worker'[w].pc # "name"
  BY WorkPlaces
<1>9. CASE /\ Lists(w, {b}, {}) /\ worker[w].pc = "probe"
           /\ worker'[w].pc = "name" /\ worker'[w].bucket = b
  <2>1. ASSUME NEW t \in Targets, NEW c \in Buckets, t = T(w), c = b
        PROVE  Behind(target_results'[t].ports[c], target_results'[t].services[c], P(w))
    <3>1. /\ target_results'[t].ports[c] = Append(target_results[t].ports[c], P(w))
          /\ target_results'[t].services[c] = target_results[t].services[c]
      BY <1>9, <2>1 DEF Lists
    <3>2. /\ Twin(target_results[t].ports[c], target_results[t].services[c])
          /\ target_results[t].ports[c] \in Seq(Ports)
      BY <1>4, <1>5, <1>9 DEF On
    <3> QED
      BY <3>1, <3>2 DEF Behind
  <2>2. ASSUME NEW t \in Targets, NEW c \in Buckets, t # T(w) \/ c # b
        PROVE  Twin(target_results'[t].ports[c], target_results'[t].services[c])
    <3>1. /\ target_results'[t].ports[c] = target_results[t].ports[c]
          /\ target_results'[t].services[c] = target_results[t].services[c]
      BY <1>6, <1>9, <2>2
    <3>2. Twin(target_results[t].ports[c], target_results[t].services[c])
      BY <1>5, <1>9 DEF On
    <3> QED
      BY <3>1, <3>2
  <2>3. /\ T(w)' = T(w) /\ P(w)' = P(w) /\ On(w, "name")'
    BY <1>3, <1>9 DEF On
  <2>4. ASSUME NEW t \in Targets, NEW c \in Buckets, Owing(t, c)' = {}
        PROVE  t # T(w) \/ c # b
    BY <1>9, <2>3, <2>4 DEF Owing
  <2>5. ASSUME NEW v \in Workers, NEW t \in Targets, NEW c \in Buckets,
               On(v, "name")', T(v)' = t, worker'[v].bucket = c
        PROVE  Behind(target_results'[t].ports[c], target_results'[t].services[c], P(v)')
    <3>1. v = w
      BY <1>2, <2>5
    <3>2. t = T(w) /\ c = b /\ P(v)' = P(w)
      BY <1>9, <2>3, <2>5, <3>1
    <3> QED
      BY <2>1, <3>2
  <2> QED
    BY <2>2, <2>4, <2>5 DEF Beside
<1>10. CASE /\ Lists(w, {}, {b}) /\ worker[w].pc = "name" /\ worker[w].bucket = b
            /\ worker'[w].pc = "idle"
  <2>1. ASSUME NEW t \in Targets, NEW c \in Buckets
        PROVE  Twin(target_results'[t].ports[c], target_results'[t].services[c])
    <3>1. CASE t = T(w) /\ c = b
      <4>1. PICK v \in Services :
              /\ v.port = P(w)
              /\ target_results'[t].services[c] = Append(target_results[t].services[c], v)
              /\ target_results'[t].ports[c] = target_results[t].ports[c]
        <5>1. c \notin {} /\ c \in {b} /\ Lists(w, {}, {b})
          BY <1>10, <3>1
        <5> QED
          BY <3>1, <5>1 DEF Lists
      <4>2. PICK q0 \in Seq(Ports) :
              /\ target_results[t].ports[c] = Append(q0, P(w))
              /\ Twin(q0, target_results[t].services[c])
        BY <1>10, <3>1 DEF Beside, Behind, On
      <4> QED
        BY <1>1, <1>4, <4>1, <4>2, TwinAppend
    <3>2. CASE ~(t = T(w) /\ c = b)
      <4>1. /\ target_results'[t].ports[c] = target_results[t].ports[c]
            /\ target_results'[t].services[c] = target_results[t].services[c]
        BY <1>6, <1>10, <3>2
      <4> QED
        BY <1>5, <1>10, <3>2, <4>1
    <3> QED
      BY <3>1, <3>2
  <2> QED
    BY <1>7, <1>10, <2>1
<1>11. CASE /\ Lists(w, {b}, {b}) /\ worker[w].pc \in {"probe", "give_up"}
            /\ worker'[w].pc = "idle"
  <2>1. ASSUME NEW t \in Targets, NEW c \in Buckets
        PROVE  Twin(target_results'[t].ports[c], target_results'[t].services[c])
    <3>1. Twin(target_results[t].ports[c], target_results[t].services[c])
      BY <1>5, <1>11 DEF On
    <3>2. CASE t = T(w) /\ c = b
      <4>1. PICK v \in Services :
              /\ v.port = P(w)
              /\ target_results'[t].services[c] = Append(target_results[t].services[c], v)
              /\ target_results'[t].ports[c] = Append(target_results[t].ports[c], P(w))
        <5>1. target_results'[T(w)].ports[b] = Append(target_results[T(w)].ports[b], P(w))
          BY <1>11 DEF Lists
        <5>2. \E v \in Services :
                /\ v.port = P(w)
                /\ target_results'[T(w)].services[b] = Append(target_results[T(w)].services[b], v)
          BY <1>11 DEF Lists
        <5> QED
          BY <3>2, <5>1, <5>2
      <4> QED
        BY <1>1, <1>4, <3>1, <4>1, TwinAppend
    <3>3. CASE ~(t = T(w) /\ c = b)
      <4>1. /\ target_results'[t].ports[c] = target_results[t].ports[c]
            /\ target_results'[t].services[c] = target_results[t].services[c]
        BY <1>6, <1>11, <3>3
      <4> QED
        BY <3>1, <4>1
    <3> QED
      BY <3>2, <3>3
  <2> QED
    BY <1>7, <1>11, <2>1
<1>12. CASE /\ Lists(w, {}, {}) /\ worker[w].pc \in {"probe", "give_up"}
            /\ worker'[w].pc # "name"
  <2>1. ASSUME NEW t \in Targets, NEW c \in Buckets
        PROVE  Twin(target_results'[t].ports[c], target_results'[t].services[c])
    <3>1. /\ target_results'[t].ports[c] = target_results[t].ports[c]
          /\ target_results'[t].services[c] = target_results[t].services[c]
      BY <1>6, <1>12
    <3> QED
      BY <1>5, <1>12, <3>1 DEF On
  <2> QED
    BY <1>7, <1>12, <2>1
<1> QED
  BY <1>8, <1>9, <1>10, <1>11, <1>12

LEMMA NextBeside ==
  TypeOK /\ Raised /\ PortsOnly /\ Quiet /\ Beside /\ [Next]_vars => Beside'
<1> SUFFICES ASSUME TypeOK, Raised, PortsOnly, Quiet, Beside, [Next]_vars PROVE Beside'
  OBVIOUS
<1>1. scan' = scan /\ Jobs' = Jobs /\ (Calm' <=> Calm)
  BY ScanStays, JobsFixed DEF Calm
<1> SUFFICES ASSUME Calm PROVE Beside'
  BY <1>1 DEF Beside
<1>2. ASSUME NEW w \in Workers, Step(w), ~Take(w)
      PROVE  Beside'
  BY <1>2, WorkStepEffect, WorkBeside
<1>3. CASE \A w \in Workers : Step(w) => Take(w)
  <2>1. ASSUME NEW t, NEW b PROVE Owing(t, b)' = Owing(t, b)
    BY <1>3, OthersOwing
  <2>2. CASE ReportTarget
    <3>1. worker' = worker /\ \A w \in Workers : ~On(w, "name")
      BY <2>2 DEF ReportTarget, Quiet, On
    <3>2. \A t, b : Owing(t, b) = {}
      BY <3>1 DEF Owing
    <3>3. ASSUME NEW t \in Targets, NEW b \in Buckets
          PROVE  Twin(target_results'[t].ports[b], target_results'[t].services[b])
      <4>1. /\ Twin(target_results[t].ports[b], target_results[t].services[b])
            /\ target_results[t] \in Results
        BY <3>2 DEF Beside, TypeOK
      <4>2. \/ target_results'[t] = target_results[t]
            \/ target_results'[t] = SyncAndDeduplicate(target_results[t])
        BY <2>2 DEF ReportTarget, Write, TypeOK
      <4> QED
        BY <4>1, <4>2, SyncTwin
    <3> QED
      BY <3>1, <3>3 DEF Beside, On
  <2>3. CASE UNCHANGED vars \/ FinishScan \/ FinishReport
    <3>1. UNCHANGED <<target_results, worker>>
      BY <2>3 DEF vars, FinishScan, FinishReport
    <3> QED
      BY <1>1, <2>1, <3>1 DEF Beside, On, T, P
  <2>4. ASSUME NEW w \in Workers, Take(w)
        PROVE  Beside'
    <3>1. /\ worker'[w].pc # "name" /\ target_results' = target_results
          /\ \A v \in Workers \ {w} : worker'[v] = worker[v]
      BY <2>4, TakeType
    <3> QED
      BY <1>1, <2>1, <3>1 DEF Beside, On, T, P
  <2> QED
    BY <1>3, <2>2, <2>3, <2>4 DEF Next, Main, Terminated
<1> QED
  BY <1>2, <1>3

\* Once all calls returned, and through the whole report, the services of a bucket are as
\* many as its ports and of the same ports, whatever the threads appended in which order;
\* with one thread, or for protocols, the service of a port stands beside it.
THEOREM ServicesAccountedForHolds == Spec => [](PortsOnly => ServicesAccountedFor)
<1> DEFINE Inv == PortsOnly => /\ TypeOK /\ Raised /\ VerdictInv /\ Quiet /\ Lengths
                               /\ Accounted /\ Singly /\ Beside
<1>1. Init => Inv
  BY InitType, InitVerdict, InitQuiet, InitLengths, InitAccounted, InitBeside
<1>2. Inv /\ [Next]_vars => Inv'
  <2> SUFFICES ASSUME Inv, [Next]_vars, PortsOnly PROVE Inv'
    BY ScanStays DEF PortsOnly
  <2> QED
    BY NextType, NextVerdict, NextQuiet, NextLengths, NextAccounted, NextBeside
<1>3. Inv => (PortsOnly => ServicesAccountedFor)
  <2> SUFFICES ASSUME TypeOK, Quiet, Lengths, Accounted, Beside, phase # "scan", Apart,
                      NEW t \in Targets, NEW b \in Buckets
               PROVE  LET r == target_results[t]
                          named == {r.services[b][i].port : i \in DOMAIN r.services[b]}
                      IN  /\ Len(r.ports[b]) = Len(r.services[b])
                          /\ named = Recorded(r, b)
                          /\ scan.max_threads = 1 \/ scan.kind = "ipproto" =>
                               \A i \in DOMAIN r.ports[b] :
                                 r.services[b][i].port = r.ports[b][i]
    BY DEF ServicesAccountedFor
  <2>1. Owing(t, b) = {} /\ Owed(t, b) = {}
    BY DEF Quiet, Owing, On, Owed
  <2>2. Recorded(target_results[t], b) = ServicePorts(target_results[t], b)
    BY <2>1 DEF Accounted
  <2>3. Calm => Twin(target_results[t].ports[b], target_results[t].services[b])
    BY <2>1 DEF Beside
  <2>4. Len(target_results[t].ports[b]) = Len(target_results[t].services[b])
    <3> DEFINE x == Len(target_results[t].ports[b])
               y == Len(target_results[t].services[b])
               k == Cardinality(Owing(t, b))
    <3>1. x = y + k
      BY DEF Lengths
    <3>2. k = 0 /\ y \in Nat
      BY <2>1, FS_EmptySet DEF TypeOK, Results
    <3> HIDE DEF x, y, k
    <3>3. x = y
      BY <3>1, <3>2
    <3> QED
      BY <3>3 DEF x, y
  <2> QED
    BY <2>2, <2>3, <2>4 DEF ServicePorts, Calm, Twin
<1> QED
  BY <1>1, <1>2, <1>3, PTL DEF Spec
=============================================================================
