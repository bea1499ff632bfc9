--------------------------- MODULE PortScan_proofs ---------------------------
(***************************************************************************)
(* Theorems about PortScan, for any set of scans, addresses, ports, banner *)
(* texts and any number of threads.  While it scans: types, and one        *)
(* verdict for every port.  What it prints: no port is lost, the record is *)
(* final and free of repetitions, services stand beside their ports, and a *)
(* scan implements VerdictLedger.                                          *)
(***************************************************************************)
EXTENDS PortScan, TargetResults_proofs

-----------------------------------------------------------------------------
(* The jobs of a scan *)

LEMMA JobsType ==
  ASSUME scan \in ScanType
  PROVE  /\ Len(Jobs) \in Nat
         /\ DOMAIN Jobs = 1..Len(Jobs)
         /\ \A n \in 1..Len(Jobs) : Jobs[n][1] \in Targets /\ Jobs[n][2] \in Ports
<1> DEFINE L == Len(ScannedTargets)
           M == Len(scan.ports_to_scan)
<1>1. ScannedTargets \in Seq(Targets) /\ scan.ports_to_scan \in Seq(Ports)
  BY DEF ScanType, ScannedTargets
<1>2. L \in Nat /\ M \in Nat /\ L * M \in Nat
  BY <1>1
<1>3. Jobs = [ n \in 1..(L * M) |-> << ScannedTargets[((n - 1) \div M) + 1],
                                       scan.ports_to_scan[((n - 1) % M) + 1] >> ]
  BY DEF Jobs
<1> HIDE DEF L, M
<1>4. Len(Jobs) = L * M /\ DOMAIN Jobs = 1..(L * M)
  BY <1>2, <1>3
<1>5. ASSUME NEW n \in 1..(L * M)
      PROVE  Jobs[n][1] \in Targets /\ Jobs[n][2] \in Ports
  <2>1. ((n - 1) \div M) + 1 \in 1..L /\ ((n - 1) % M) + 1 \in 1..M
    BY <1>2, LoopPosition
  <2> DEFINE i == ((n - 1) \div M) + 1
             j == ((n - 1) % M) + 1
  <2>2. Jobs[n] = <<ScannedTargets[i], scan.ports_to_scan[j]>>
    BY <1>3
  <2>3. i \in 1..L /\ j \in 1..M
    BY <2>1
  <2> HIDE DEF i, j
  <2>4. ScannedTargets[i] \in Targets /\ scan.ports_to_scan[j] \in Ports
    BY <1>1, <2>3 DEF L, M
  <2> QED
    BY <2>2, <2>4
<1> QED
  BY <1>2, <1>4, <1>5

\* The scan never changes, and neither do its jobs.
LEMMA JobsFixed ==
  ASSUME scan' = scan
  PROVE  /\ Jobs' = Jobs
         /\ WorkerStates' = WorkerStates
         /\ Inline' = Inline
         /\ \A n : Sole(n)' <=> Sole(n)
<1>1. Jobs' = Jobs /\ Inline' = Inline
  BY DEF Jobs, ScannedTargets, Inline
<1> QED
  BY <1>1 DEF WorkerStates, Sole

-----------------------------------------------------------------------------
(* What a busy worker does to the shared record and to itself *)

LEMMA BusyWorker ==
  ASSUME TypeOK, NEW w \in Workers, ~On(w, "idle")
  PROVE  /\ scan \in ScanType
         /\ worker[w].job \in 1..Len(Jobs)
         /\ T(w) \in Targets
         /\ P(w) \in Ports
         /\ target_results[T(w)] \in Results
<1>1. scan \in ScanType
  BY ScanAssumption DEF TypeOK
<1>2. worker[w] \in WorkerStates /\ worker[w].job # 0
  BY DEF TypeOK
<1>3. worker[w].job \in 1..Len(Jobs)
  BY <1>1, <1>2, JobsType DEF WorkerStates
<1>4. T(w) \in Targets /\ P(w) \in Ports
  BY <1>1, <1>3, JobsType DEF T, P
<1> QED
  BY <1>1, <1>3, <1>4 DEF TypeOK

\* The lists of ports after a step: bucket b of the worker's target gained the
\* worker's port, or nothing changed.
Adds(w, b) ==
  \A t \in Targets, c \in Buckets :
    Recorded(target_results'[t], c) =
      Recorded(target_results[t], c) \cup
        (IF t = T(w) /\ c = b THEN {P(w)} ELSE {})
AddsNothing ==
  \A t \in Targets, c \in Buckets :
    Recorded(target_results'[t], c) = Recorded(target_results[t], c)

LEMMA RecordEffect ==
  ASSUME TypeOK, NEW w \in Workers, ~On(w, "idle"), NEW b \in Buckets, Record(w, b)
  PROVE  target_results' \in [Targets -> Results] /\ Adds(w, b)
<1> DEFINE r == target_results[T(w)]
           r1 == AppendPort(r, b, P(w))
           r2 == AppendService(r1, b, Table(P(w)))
<1>1. T(w) \in Targets /\ P(w) \in Ports /\ r \in Results
  BY BusyWorker
<1>2. Table(P(w)) \in Services
  BY <1>1, TableIsService
<1>3. r1 \in Results /\ \A c \in Buckets :
        Recorded(r1, c) = Recorded(r, c) \cup (IF c = b THEN {P(w)} ELSE {})
  BY <1>1, AppendPortType
<1>4. r2 \in Results /\ \A c \in Buckets : Recorded(r2, c) = Recorded(r1, c)
  BY <1>2, <1>3, AppendServiceType
<1>5. target_results' = [target_results EXCEPT ![T(w)] = r2]
  BY DEF Record, Write
<1> QED
  BY <1>1, <1>3, <1>4, <1>5 DEF Adds, TypeOK

LEMMA GrabEffect ==
  ASSUME TypeOK, NEW w \in Workers, Grab(w)
  PROVE  target_results' \in [Targets -> Results] /\ Adds(w, "open_ports")
<1> DEFINE r == target_results[T(w)]
           r1 == AppendPort(r, "open_ports", P(w))
<1>1. T(w) \in Targets /\ P(w) \in Ports /\ r \in Results
  BY BusyWorker DEF Grab, On
<1>2. "open_ports" \in Buckets
  BY DEF Buckets, PORT_TO_SERVICES
<1>3. r1 \in Results /\ \A c \in Buckets :
        Recorded(r1, c) = Recorded(r, c) \cup (IF c = "open_ports" THEN {P(w)} ELSE {})
  BY <1>1, <1>2, AppendPortType
<1>4. target_results' = [target_results EXCEPT ![T(w)] = r1]
  BY DEF Grab, Write
<1> QED
  BY <1>1, <1>3, <1>4 DEF Adds, TypeOK

LEMMA ServiceEffect ==
  ASSUME TypeOK, NEW w \in Workers,
         GrabRaises(w) \/ RecordBanner(w) \/ RecordNoBanner(w)
  PROVE  target_results' \in [Targets -> Results] /\ AddsNothing
<1> DEFINE r == target_results[T(w)]
           plain == AppendService(r, "open_ports", Table(P(w)))
           named == AppendService(r, "open_ports", Banner(P(w)))
<1>1. T(w) \in Targets /\ P(w) \in Ports /\ r \in Results
  BY BusyWorker DEF GrabRaises, RecordBanner, RecordNoBanner, On
<1>2. "open_ports" \in Buckets
  BY DEF Buckets, PORT_TO_SERVICES
<1>3. Table(P(w)) \in Services /\ Banner(P(w)) \in Services
  BY <1>1, TableIsService
<1>4. /\ plain \in Results /\ named \in Results
      /\ \A c \in Buckets : /\ Recorded(plain, c) = Recorded(r, c)
                            /\ Recorded(named, c) = Recorded(r, c)
  BY <1>1, <1>2, <1>3, AppendServiceType
<1>5. ASSUME NEW x \in Texts
      PROVE  /\ AppendBanner(named, x, P(w)) \in Results
             /\ \A c \in Buckets :
                  Recorded(AppendBanner(named, x, P(w)), c) = Recorded(r, c)
  BY <1>1, <1>4, AppendBannerType
<1>6. PICK q \in Results : /\ target_results' = [target_results EXCEPT ![T(w)] = q]
                           /\ \A c \in Buckets : Recorded(q, c) = Recorded(r, c)
  <2> HIDE DEF r, plain, named
  <2>1. CASE RecordBanner(w)
    BY <1>5, <2>1 DEF RecordBanner, Write, r, named
  <2>2. CASE GrabRaises(w) \/ RecordNoBanner(w)
    BY <1>4, <2>2 DEF GrabRaises, RecordNoBanner, Write, r, plain
  <2> QED
    BY <2>1, <2>2
<1> QED
  BY <1>1, <1>6 DEF AddsNothing, TypeOK

\* After a step of worker w that leaves it at pc l, in attempt a, with job j.
Moves(w, j, l, a) ==
  /\ worker' \in [Workers -> WorkerStates]
  /\ worker'[w] = [job |-> j, pc |-> l, attempt |-> a]
  /\ \A v \in Workers \ {w} : worker'[v] = worker[v]

LEMMA MoveTypes ==
  ASSUME TypeOK, NEW w \in Workers
  PROVE  /\ \A l \in Labels :
              Goto(w, l) => Moves(w, worker[w].job, l, worker[w].attempt)
         /\ Retry(w) => Moves(w, worker[w].job, "probe", worker[w].attempt + 1)
         /\ Return(w) => Moves(w, 0, "idle", 0)
<1>1. /\ worker \in [Workers -> WorkerStates]
      /\ worker[w] \in WorkerStates
      /\ Len(Jobs) \in Nat
  BY JobsType, ScanAssumption DEF TypeOK
<1>2. ASSUME NEW l \in Labels, Goto(w, l)
      PROVE  Moves(w, worker[w].job, l, worker[w].attempt)
  <2> DEFINE s == [worker[w] EXCEPT !.pc = l]
  <2>1. s \in WorkerStates
        /\ s = [job |-> worker[w].job, pc |-> l, attempt |-> worker[w].attempt]
    BY <1>1 DEF WorkerStates
  <2>2. worker' = [worker EXCEPT ![w] = s]
    BY <1>2 DEF Goto
  <2> QED
    BY <1>1, <2>1, <2>2 DEF Moves
<1>3. ASSUME Retry(w)
      PROVE  Moves(w, worker[w].job, "probe", worker[w].attempt + 1)
  <2> DEFINE s == [job |-> worker[w].job, pc |-> "probe",
                   attempt |-> worker[w].attempt + 1]
  <2>1. s \in WorkerStates
    BY <1>1 DEF WorkerStates, Labels
  <2>2. worker' = [worker EXCEPT ![w] = s]
    BY <1>1, <1>3 DEF Retry, WorkerStates
  <2> QED
    BY <1>1, <2>1, <2>2 DEF Moves
<1>4. ASSUME Return(w) PROVE Moves(w, 0, "idle", 0)
  <2>1. Idle \in WorkerStates
    BY <1>1 DEF Idle, WorkerStates, Labels
  <2> QED
    BY <1>1, <1>4, <2>1 DEF Moves, Return, Idle
<1> QED
  BY <1>2, <1>3, <1>4

\* What the step of a busy worker comes down to: where it was, what it adds to
\* the lists of ports, and where it goes.
Leaves(w)   == worker'[w] = Idle
Goes(w, ls) == worker'[w].job = worker[w].job /\ worker'[w].pc \in ls

Effect(w) ==
  \/ AddsNothing /\ Leaves(w)
  \/ /\ worker[w].pc \in {"connect", "probe", "give_up"}
     /\ \E b \in Buckets : Adds(w, b)
     /\ Leaves(w)
  \/ /\ worker[w].pc \in {"connect", "probe"}
     /\ Adds(w, "open_ports")
     /\ Goes(w, {"grab", "post"})
  \/ worker[w].pc = "grab" /\ Adds(w, "open_ports") /\ Goes(w, {"service"})
  \/ worker[w].pc = "probe" /\ AddsNothing /\ Goes(w, {"probe", "check", "grab"})
  \/ worker[w].pc \in {"grab", "service"} /\ AddsNothing /\ Goes(w, {"post"})
  \/ worker[w].pc = "post" /\ AddsNothing /\ Goes(w, {"check"})
  \/ /\ worker[w].pc = "post"
     /\ "post" \in scan.faults
     /\ ~LastAttempt(w)
     /\ AddsNothing
     /\ Goes(w, {"probe"})
  \/ /\ worker[w].pc = "check"
     /\ P(w) \notin Recorded(target_results[T(w)], "open_ports")
     /\ AddsNothing
     /\ Goes(w, {"give_up"})

BusyStep(w) ==
  /\ ~On(w, "idle")
  /\ target_results' \in [Targets -> Results]
  /\ worker' \in [Workers -> WorkerStates]
  /\ \A v \in Workers \ {w} : worker'[v] = worker[v]
  /\ worker'[w].pc = "idle" <=> worker'[w].job = 0
  /\ worker'[w].attempt < scan.max_retries
  /\ Effect(w)

LEMMA BusyStepEffect ==
  ASSUME TypeOK, NEW w \in Workers, Step(w), ~Take(w)
  PROVE  BusyStep(w)
<1> DEFINE Moved(ls) == \E l \in ls : Moves(w, worker[w].job, l, worker[w].attempt)
           Retried == Moves(w, worker[w].job, "probe", worker[w].attempt + 1)
           Left == Moves(w, 0, "idle", 0)
<1>1. /\ scan \in ScanType /\ worker[w] \in WorkerStates
      /\ worker[w].attempt < scan.max_retries
      /\ worker[w].attempt \in Nat /\ scan.max_retries \in Nat
      /\ target_results \in [Targets -> Results]
      /\ worker[w].pc = "idle" <=> worker[w].job = 0
  BY ScanAssumption DEF TypeOK, ScanType, WorkerStates, On
<1>2. {"open_ports", "closed_ports", "filtered_ports", "open_filtered_ports"}
        \subseteq Buckets
  BY DEF Buckets, PORT_TO_SERVICES
<1>3. /\ \A l \in Labels : Goto(w, l) => Moved({l})
      /\ Retry(w) => Retried
      /\ Return(w) => Left
  BY MoveTypes
<1>4. AfterOpen(w) => Left \/ Moved({"post"})
  BY <1>3 DEF AfterOpen, Labels
<1>5. Except(w) => Moved({"check"}) \/ (Retried /\ ~LastAttempt(w))
  BY <1>3 DEF Except, Labels
<1>6. target_results' = target_results =>
        target_results' \in [Targets -> Results] /\ AddsNothing
  BY <1>1 DEF AddsNothing
<1>7. ASSUME ~On(w, "idle"), target_results' \in [Targets -> Results], Left
      PROVE  /\ AddsNothing => BusyStep(w)
             /\ worker[w].pc \in {"connect", "probe", "give_up"} /\ (\E b \in Buckets : Adds(w, b))
                  => BusyStep(w)
  BY <1>1, <1>7 DEF BusyStep, Effect, Leaves, Moves, Idle
<1>8. ASSUME ~On(w, "idle"), target_results' \in [Targets -> Results],
             NEW ls \in SUBSET (Labels \ {"idle"}), Moved(ls), Effect(w)
      PROVE  BusyStep(w)
  BY <1>1, <1>8 DEF BusyStep, Moves, On
<1>9. ASSUME NEW ls \in SUBSET Labels, Moved(ls)
      PROVE  Goes(w, ls)
  BY <1>9 DEF Goes, Moves
<1> HIDE DEF Moved, Left
<1>10. CASE ConnectOpen(w)
  <2>1. /\ worker[w].pc = "connect" /\ ~On(w, "idle")
        /\ target_results' \in [Targets -> Results] /\ Adds(w, "open_ports")
    BY <1>2, <1>10, RecordEffect DEF ConnectOpen, On
  <2>2. CASE Goto(w, "grab")
    BY <1>3, <1>8, <1>9, <2>1, <2>2 DEF Labels, Effect, Goes
  <2>3. CASE Return(w)
    BY <1>2, <1>3, <1>7, <2>1, <2>3
  <2> QED
    BY <1>10, <2>2, <2>3 DEF ConnectOpen
<1>11. ASSUME ~On(w, "idle"), target_results' \in [Targets -> Results], Retried,
              ~LastAttempt(w), Effect(w)
       PROVE  BusyStep(w)
  BY <1>1, <1>11 DEF BusyStep, Moves, On, LastAttempt
<1>12. Retried => Goes(w, {"probe"})
  BY DEF Goes, Moves
<1> HIDE DEF Retried
<1>13. CASE ConnectClosed(w) \/ ProbeClosed(w) \/ ProbeFiltered(w) \/ GiveUp(w)
  <2>1. /\ worker[w].pc \in {"connect", "probe", "give_up"} /\ ~On(w, "idle")
        /\ Record(w, "closed_ports") \/ Record(w, "filtered_ports")
        /\ Return(w)
    BY <1>13 DEF ConnectClosed, ProbeClosed, ProbeFiltered, GiveUp, On
  <2>2. target_results' \in [Targets -> Results] /\ \E b \in Buckets : Adds(w, b)
    BY <1>2, <2>1, RecordEffect
  <2> QED
    BY <1>3, <1>7, <2>1, <2>2
<1>14. CASE ConnectRaises(w) \/ Post(w)
  <2>1. ~On(w, "idle") /\ Return(w)
    BY <1>14 DEF ConnectRaises, Post, On
  <2>2. target_results' = target_results \/ ConnectRaises(w)
    BY <1>14 DEF Post
  <2> QED
    BY <1>3, <1>6, <1>7, <1>14, <2>1 DEF ConnectRaises, Post
<1>15. CASE ProbeSilent(w)
  <2>1. worker[w].pc = "probe" /\ ~On(w, "idle")
    BY <1>15 DEF ProbeSilent, On
  <2>2. CASE LastAttempt(w)
    <3>1. /\ Record(w, "open_filtered_ports") \/ Record(w, "filtered_ports")
          /\ Return(w)
      BY <1>15, <2>2 DEF ProbeSilent
    <3>2. target_results' \in [Targets -> Results] /\ \E b \in Buckets : Adds(w, b)
      BY <1>2, <2>1, <3>1, RecordEffect
    <3> QED
      BY <1>3, <1>7, <2>1, <3>1, <3>2
  <2>3. CASE ~LastAttempt(w)
    <3>1. Retry(w) /\ target_results' = target_results
      BY <1>15, <2>3 DEF ProbeSilent
    <3>2. Effect(w)
      BY <1>3, <1>6, <1>12, <2>1, <3>1 DEF Effect, Goes
    <3> QED
      BY <1>3, <1>6, <1>11, <2>1, <2>3, <3>1, <3>2
  <2> QED
    BY <2>2, <2>3
<1>16. CASE ProbeOpen(w)
  <2>1. worker[w].pc = "probe" /\ ~On(w, "idle")
    BY <1>16 DEF ProbeOpen, On
  <2>2. CASE scan.banner
    <3>1. Goto(w, "grab") /\ target_results' = target_results
      BY <1>16, <2>2 DEF ProbeOpen
    <3>2. Moved({"grab"})
      BY <1>3, <3>1 DEF Labels
    <3>3. Effect(w)
      BY <1>6, <1>9, <2>1, <3>1, <3>2 DEF Effect, Goes, Labels
    <3> QED
      BY <1>6, <1>8, <2>1, <3>1, <3>2, <3>3 DEF Labels
  <2>3. CASE ~scan.banner
    <3>1. Record(w, "open_ports") /\ AfterOpen(w)
      BY <1>16, <2>3 DEF ProbeOpen
    <3>2. target_results' \in [Targets -> Results] /\ Adds(w, "open_ports")
      BY <1>2, <2>1, <3>1, RecordEffect
    <3>3. CASE Left
      BY <1>2, <1>7, <2>1, <3>2, <3>3
    <3>4. CASE Moved({"post"})
      <4>1. Effect(w)
        BY <1>9, <2>1, <3>2, <3>4 DEF Effect, Goes, Labels
      <4> QED
        BY <1>8, <2>1, <3>2, <3>4, <4>1 DEF Labels
    <3> QED
      BY <1>4, <3>1, <3>3, <3>4
  <2> QED
    BY <2>2, <2>3
<1>17. CASE ProbeRaises(w) \/ PostRaises(w)
  <2>1. /\ \/ worker[w].pc = "probe"
           \/ worker[w].pc = "post" /\ "post" \in scan.faults
        /\ ~On(w, "idle") /\ Except(w) /\ target_results' = target_results
    BY <1>17 DEF ProbeRaises, PostRaises, On
  <2>2. CASE Moved({"check"})
    <3>1. Effect(w)
      BY <1>6, <1>9, <2>1, <2>2 DEF Effect, Goes, Labels
    <3> QED
      BY <1>6, <1>8, <2>1, <2>2, <3>1 DEF Labels
  <2>3. CASE Retried /\ ~LastAttempt(w)
    <3>1. Effect(w)
      BY <1>6, <1>12, <2>1, <2>3 DEF Effect, Goes
    <3> QED
      BY <1>6, <1>11, <2>1, <2>3, <3>1
  <2> QED
    BY <1>5, <2>1, <2>2, <2>3
<1>18. CASE CheckOpen(w)
  <2>1. /\ worker[w].pc = "check" /\ ~On(w, "idle") /\ target_results' = target_results
    BY <1>18 DEF CheckOpen, On
  <2>2. CASE Return(w)
    BY <1>3, <1>6, <1>7, <2>1, <2>2
  <2>3. CASE /\ Goto(w, "give_up")
             /\ P(w) \notin Recorded(target_results[T(w)], "open_ports")
    <3>1. Moved({"give_up"})
      BY <1>3, <2>3 DEF Labels
    <3>2. Effect(w)
      BY <1>6, <1>9, <2>1, <2>3, <3>1 DEF Effect, Goes, Labels
    <3> QED
      BY <1>6, <1>8, <2>1, <3>1, <3>2 DEF Labels
  <2> QED
    BY <1>18, <2>2, <2>3 DEF CheckOpen
<1>19. CASE Grab(w)
  <2>1. /\ worker[w].pc = "grab" /\ ~On(w, "idle") /\ Goto(w, "service")
    BY <1>19 DEF Grab, On
  <2>2. target_results' \in [Targets -> Results] /\ Adds(w, "open_ports")
    BY <1>19, GrabEffect
  <2>3. Moved({"service"})
    BY <1>3, <2>1 DEF Labels
  <2>4. Effect(w)
    BY <1>9, <2>1, <2>2, <2>3 DEF Effect, Goes, Labels
  <2> QED
    BY <1>8, <2>1, <2>2, <2>3, <2>4 DEF Labels
<1>20. CASE GrabRaises(w) \/ RecordBanner(w) \/ RecordNoBanner(w)
  <2>1. /\ worker[w].pc \in {"grab", "service"} /\ ~On(w, "idle") /\ AfterOpen(w)
    BY <1>20 DEF GrabRaises, RecordBanner, RecordNoBanner, On
  <2>2. target_results' \in [Targets -> Results] /\ AddsNothing
    BY <1>20, ServiceEffect
  <2>3. CASE Left
    BY <1>7, <2>1, <2>2, <2>3
  <2>4. CASE Moved({"post"})
    <3>1. Effect(w)
      BY <1>9, <2>1, <2>2, <2>4 DEF Effect, Goes, Labels
    <3> QED
      BY <1>8, <2>1, <2>2, <2>4, <3>1 DEF Labels
  <2> QED
    BY <1>4, <2>1, <2>3, <2>4
<1> QED
  BY <1>10, <1>13, <1>14, <1>15, <1>16, <1>17, <1>18, <1>19, <1>20 DEF Step
\* What a busy worker leaves alone.
LEMMA BusyStepFrame ==
  ASSUME TypeOK, NEW w \in Workers, Step(w), ~Take(w)
  PROVE  /\ UNCHANGED <<scan, submitted, taken, reported>>
         /\ failed' \subseteq 1..Len(Jobs)
         /\ phase' \in {phase, "aborted"}
<1>1. failed \subseteq 1..Len(Jobs)
  BY DEF TypeOK
<1>2. CASE ConnectRaises(w)
  BY <1>1, <1>2, BusyWorker DEF ConnectRaises, On
<1>3. CASE ~ConnectRaises(w)
  <2>1. UNCHANGED pool
    BY <1>3 DEF Step, ConnectOpen, ConnectClosed, ProbeSilent, ProbeClosed,
       ProbeFiltered, ProbeOpen, ProbeRaises, Post, PostRaises, CheckOpen, GiveUp,
       Grab, GrabRaises, RecordBanner, RecordNoBanner
  <2> QED
    BY <1>1, <2>1 DEF pool
<1> QED
  BY <1>2, <1>3

-----------------------------------------------------------------------------
(* Type correctness *)

LEMMA InitType == Init => TypeOK
<1> SUFFICES ASSUME Init PROVE TypeOK
  OBVIOUS
<1>1. scan \in Scans /\ scan \in ScanType
  BY ScanAssumption DEF Init
<1>2. Len(Jobs) \in Nat
  BY <1>1, JobsType
<1>3. initialize_target_results \in Results
  BY DEF initialize_target_results, Results
<1>4. target_results \in [Targets -> Results]
  BY <1>3 DEF Init
<1>5. submitted \in 0..Len(Jobs) /\ taken \in 0..submitted
  BY <1>2 DEF Init
<1>6. Idle \in WorkerStates /\ Idle.pc = "idle" /\ Idle.job = 0 /\ Idle.attempt = 0
  BY <1>2 DEF Idle, WorkerStates, Labels
<1>7. scan.max_retries \in Nat \ {0} /\ Len(scan.targetss) \in Nat
  BY <1>1 DEF ScanType
<1>8. \A v \in Workers : worker[v] = Idle
  BY DEF Init
<1>9. worker \in [Workers -> WorkerStates]
  BY <1>6 DEF Init
<1> QED
  BY <1>1, <1>4, <1>5, <1>6, <1>7, <1>8, <1>9 DEF TypeOK, Init, On

LEMMA TakeType ==
  ASSUME TypeOK, NEW w \in Workers, Take(w)
  PROVE  /\ worker' \in [Workers -> WorkerStates]
         /\ worker'[w].job = taken + 1
         /\ worker'[w].pc \in {"connect", "probe"}
         /\ worker'[w].attempt = 0
         /\ \A v \in Workers \ {w} : worker'[v] = worker[v]
         /\ taken' = taken + 1 /\ taken + 1 \in 1..submitted
         /\ UNCHANGED <<scan, target_results, submitted, failed, phase, reported>>
<1>1. Len(Jobs) \in Nat /\ submitted \in 0..Len(Jobs) /\ taken \in 0..submitted
  BY JobsType, ScanAssumption DEF TypeOK
<1> DEFINE s == [ job |-> taken + 1,
                  pc |-> IF Connects(Jobs[taken + 1][1]) THEN "connect" ELSE "probe",
                  attempt |-> 0 ]
<1>2. taken < submitted /\ worker' = [worker EXCEPT ![w] = s]
  BY DEF Take
<1>3. s \in WorkerStates /\ s.job = taken + 1 /\ s.pc \in {"connect", "probe"}
      /\ s.attempt = 0
  BY <1>1, <1>2 DEF WorkerStates, Labels
<1> HIDE DEF s
<1> QED
  BY <1>1, <1>2, <1>3 DEF TypeOK, Take

LEMMA NextType == TypeOK /\ [Next]_vars => TypeOK'
<1> SUFFICES ASSUME TypeOK, [Next]_vars PROVE TypeOK'
  OBVIOUS
<1>1. /\ scan \in ScanType /\ Len(Jobs) \in Nat
      /\ scan.max_retries \in Nat \ {0}
      /\ Len(scan.targetss) \in Nat
      /\ scan.targetss \in Seq(Targets)
      /\ submitted \in 0..Len(Jobs) /\ taken \in 0..submitted
      /\ reported \in 0..Len(scan.targetss)
  BY JobsType, ScanAssumption DEF TypeOK, ScanType
<1>2. scan' = scan => Jobs' = Jobs /\ WorkerStates' = WorkerStates
  BY JobsFixed
<1>3. CASE Submit
  BY <1>1, <1>2, <1>3 DEF TypeOK, Submit, On
<1>4. CASE FinishScan
  BY <1>1, <1>2, <1>4 DEF TypeOK, FinishScan, On
<1>5. CASE ReportTarget
  <2>1. reported + 1 \in 1..Len(scan.targetss)
    BY <1>1, <1>5 DEF ReportTarget
  <2> DEFINE t == scan.targetss[reported + 1]
  <2>2. t \in Targets
    BY <1>1, <2>1
  <2>3. SyncAndDeduplicate(target_results[t]) \in Results
    BY <2>2, SyncAndDeduplicateType DEF TypeOK
  <2>4. target_results' = [target_results EXCEPT ![t] = SyncAndDeduplicate(target_results[t])]
    BY <1>5 DEF ReportTarget, Write
  <2>5. target_results' \in [Targets -> Results]
    BY <2>2, <2>3, <2>4 DEF TypeOK
  <2> QED
    BY <1>1, <1>2, <1>5, <2>1, <2>5 DEF TypeOK, ReportTarget, On
<1>6. CASE FinishReport
  BY <1>1, <1>2, <1>6 DEF TypeOK, FinishReport, On
<1>7. ASSUME NEW w \in Workers, Take(w)
      PROVE  TypeOK'
  <2>1. /\ worker' \in [Workers -> WorkerStates]
        /\ worker'[w].job = taken + 1
        /\ worker'[w].pc \in {"connect", "probe"}
        /\ worker'[w].attempt = 0
        /\ \A v \in Workers \ {w} : worker'[v] = worker[v]
        /\ taken' = taken + 1 /\ taken + 1 \in 1..submitted
        /\ UNCHANGED <<scan, target_results, submitted, failed, phase, reported>>
    BY <1>7, TakeType
  <2>2. \A v \in Workers :
          /\ On(v, "idle")' <=> worker'[v].job = 0
          /\ worker'[v].attempt < scan.max_retries
    BY <1>1, <2>1 DEF TypeOK, On
  <2>3. taken' \in 0..submitted
    BY <1>1, <2>1
  <2> QED
    BY <1>1, <1>2, <2>1, <2>2, <2>3 DEF TypeOK
<1>8. ASSUME NEW w \in Workers, Step(w), ~Take(w)
      PROVE  TypeOK'
  <2>1. BusyStep(w)
    BY <1>8, BusyStepEffect
  <2>2. /\ UNCHANGED <<scan, submitted, taken, reported>>
        /\ failed' \subseteq 1..Len(Jobs)
        /\ phase' \in {phase, "aborted"}
    BY <1>8, BusyStepFrame
  <2>3. \A v \in Workers :
          /\ On(v, "idle")' <=> worker'[v].job = 0
          /\ worker'[v].attempt < scan.max_retries
    BY <2>1 DEF BusyStep, TypeOK, On
  <2> QED
    BY <1>1, <1>2, <2>1, <2>2, <2>3 DEF TypeOK, BusyStep
<1>9. CASE UNCHANGED vars
  BY <1>2, <1>9 DEF TypeOK, vars, pool, On
<1> QED
  BY <1>3, <1>4, <1>5, <1>6, <1>7, <1>8, <1>9 DEF Next, Main, Terminated

\* Every variable of the scan keeps its type, for any number of targets, ports,
\* threads and retries: no index into the jobs or the worker states is ever out
\* of range, and no port is probed more than max_retries times.
THEOREM TypeCorrect == Spec => []TypeOK
<1> QED
  BY InitType, NextType, PTL DEF Spec
-----------------------------------------------------------------------------
(* One verdict per port *)

\* No two threads hold the same job, and every job held was taken.
Apart ==
  \A w \in Workers :
    /\ worker[w].job <= taken
    /\ \A v \in Workers \ {w} : worker[v].job = worker[w].job => worker[w].job = 0

\* The port of job n stands in bucket b of its target.
In(n, b)  == Jobs[n][2] \in Recorded(target_results[Jobs[n][1]], b)
Unseen(n) == \A b \in Buckets : ~In(n, b)

\* A port stands nowhere before its job is taken and as long as its thread may
\* still settle it, and in no list but open_ports while its thread is busy.
JobVerdict(n) ==
  /\ \A b, c \in Buckets : In(n, b) /\ In(n, c) => b = c
  /\ n > taken => Unseen(n)
  /\ \A w \in Workers : worker[w].job = n =>
       /\ \A b \in Buckets : In(n, b) => b = "open_ports"
       /\ worker[w].pc \in {"connect", "probe", "give_up"} => Unseen(n)

NoPostRetry == "post" \notin scan.faults \/ scan.max_retries = 1

VerdictInv ==
  /\ Apart
  /\ NoPostRetry => \A n \in DOMAIN Jobs : Sole(n) => JobVerdict(n)

LEMMA InitVerdict == Init /\ TypeOK => VerdictInv
<1> SUFFICES ASSUME Init, TypeOK PROVE VerdictInv
  OBVIOUS
<1>1. scan \in ScanType
  BY ScanAssumption DEF TypeOK
<1>2. Apart
  BY DEF Init, Idle, Apart
<1>3. ASSUME NEW n \in DOMAIN Jobs PROVE JobVerdict(n)
  <2>1. n \in Nat \ {0} /\ Jobs[n][1] \in Targets
    BY <1>1, JobsType
  <2>2. \A b \in Buckets : Recorded(target_results[Jobs[n][1]], b) = {}
    BY <2>1 DEF Init, initialize_target_results, Recorded
  <2>3. Unseen(n)
    BY <2>2 DEF Unseen, In
  <2> QED
    BY <2>1, <2>3 DEF Init, Idle, JobVerdict, Unseen
<1> QED
  BY <1>2, <1>3 DEF VerdictInv

\* The step of a busy worker keeps the threads apart.
LEMMA BusyApart ==
  ASSUME TypeOK, Apart, NEW w \in Workers, BusyStep(w), taken' = taken
  PROVE  Apart'
<1>1. worker'[w].job \in {0, worker[w].job}
  BY DEF BusyStep, Effect, Leaves, Goes, Idle
<1>2. \A v \in Workers : worker[v].job \in Nat /\ taken \in Nat
  BY JobsType, ScanAssumption DEF TypeOK, WorkerStates
<1> QED
  BY <1>1, <1>2 DEF Apart, BusyStep

\* What the step of a busy worker does to job n.
LEMMA BusyVerdict ==
  ASSUME TypeOK, Apart, NEW w \in Workers, BusyStep(w), NoPostRetry,
         scan' = scan, taken' = taken,
         NEW n \in DOMAIN Jobs, Sole(n), JobVerdict(n)
  PROVE  JobVerdict(n)'
<1>1. /\ scan \in ScanType /\ DOMAIN Jobs = 1..Len(Jobs) /\ Len(Jobs) \in Nat
      /\ \A m \in 1..Len(Jobs) : Jobs[m][1] \in Targets /\ Jobs[m][2] \in Ports
  BY JobsType, ScanAssumption DEF TypeOK
<1>2. Jobs' = Jobs
  BY JobsFixed
<1> DEFINE j == worker[w].job
<1>3. j \in DOMAIN Jobs /\ j <= taken /\ taken \in Nat
      /\ T(w) = Jobs[j][1] /\ P(w) = Jobs[j][2]
  BY <1>1, BusyWorker DEF BusyStep, Apart, TypeOK, T, P
<1>4. AddsNothing => \A b \in Buckets : In(n, b)' <=> In(n, b)
  BY <1>1, <1>2 DEF AddsNothing, In
<1>5. CASE j # n
  <2>1. ~(T(w) = Jobs[n][1] /\ P(w) = Jobs[n][2])
    <3>1. \A m \in DOMAIN Jobs : Jobs[m] = <<Jobs[m][1], Jobs[m][2]>>
      BY <1>1 DEF Jobs
    <3> QED
      BY <1>3, <1>5, <3>1 DEF Sole
  <2>2. \A b \in Buckets : In(n, b)' <=> In(n, b)
    <3>1. ASSUME NEW b \in Buckets, Adds(w, b)
          PROVE  \A c \in Buckets : In(n, c)' <=> In(n, c)
      BY <1>1, <1>2, <2>1, <3>1 DEF Adds, In
    <3>2. AddsNothing \/ \E b \in Buckets : Adds(w, b)
      BY DEF BusyStep, Effect, Buckets, PORT_TO_SERVICES
    <3> QED
      BY <1>4, <3>1, <3>2
  <2>3. worker'[w].job # n
    BY <1>1, <1>5 DEF BusyStep, Effect, Leaves, Goes, Idle
  <2>4. \A v \in Workers : worker'[v].job = n => worker'[v] = worker[v]
    BY <2>3 DEF BusyStep
  <2> QED
    BY <2>2, <2>4 DEF JobVerdict, Unseen
<1>6. CASE j = n
  <2>1. \A v \in Workers \ {w} : worker'[v].job # n
    BY <1>1, <1>6 DEF Apart, BusyStep
  <2>2. ~(n > taken)
    BY <1>1, <1>3, <1>6
  <2>3. /\ \A b \in Buckets : In(n, b) => b = "open_ports"
        /\ worker[w].pc \in {"connect", "probe", "give_up"} => Unseen(n)
    BY <1>6 DEF JobVerdict
  <2>4. "open_ports" \in Buckets
    BY DEF Buckets, PORT_TO_SERVICES
  <2>5. \A b \in Buckets : Adds(w, b) =>
          \A c \in Buckets : In(n, c)' <=> In(n, c) \/ c = b
    <3> SUFFICES ASSUME NEW b \in Buckets, Adds(w, b), NEW c \in Buckets
                 PROVE  In(n, c)' <=> In(n, c) \/ c = b
      OBVIOUS
    <3>1. Jobs[n][1] \in Targets /\ T(w) = Jobs[n][1] /\ P(w) = Jobs[n][2]
      BY <1>1, <1>3, <1>6
    <3>2. Recorded(target_results'[Jobs[n][1]], c)
            = Recorded(target_results[Jobs[n][1]], c) \cup (IF c = b THEN {Jobs[n][2]} ELSE {})
      BY <3>1 DEF Adds
    <3> QED
      BY <1>2, <3>2 DEF In
  <2> SUFFICES /\ \A b, c \in Buckets : In(n, b)' /\ In(n, c)' => b = c
               /\ worker'[w].job = n =>
                    /\ \A b \in Buckets : In(n, b)' => b = "open_ports"
                    /\ worker'[w].pc \in {"connect", "probe", "give_up"} => Unseen(n)'
    BY <2>1, <2>2 DEF JobVerdict
  <2>6. CASE Leaves(w)
    <3>1. worker'[w].job # n
      BY <1>1, <2>6 DEF Leaves, Idle
    <3>2. CASE AddsNothing
      BY <1>4, <2>3, <3>1, <3>2
    <3>3. CASE Unseen(n) /\ \E b \in Buckets : Adds(w, b)
      BY <2>5, <3>1, <3>3 DEF Unseen
    <3>4. CASE Adds(w, "open_ports")
      BY <2>3, <2>4, <2>5, <3>1, <3>4
    <3> QED
      BY <1>3, <1>6, <2>3, <2>6, <3>2, <3>3, <3>4 DEF BusyStep, Effect, Leaves, Goes, Idle
  <2>7. CASE ~Leaves(w) /\ AddsNothing
    <3>1. worker'[w].pc \in {"connect", "probe", "give_up"} => Unseen(n)
      <4>1. CASE worker[w].pc = "post" /\ "post" \in scan.faults /\ ~LastAttempt(w)
        BY <1>1, <4>1 DEF NoPostRetry, LastAttempt, TypeOK, WorkerStates, ScanType
      <4>2. CASE worker[w].pc = "check" /\ ~In(n, "open_ports")
        BY <2>3, <4>2 DEF Unseen
      <4>3. CASE worker[w].pc = "probe"
        BY <2>3, <4>3
      <4>4. CASE worker'[w].pc \notin {"connect", "probe", "give_up"}
        BY <4>4
      <4> QED
        BY <1>3, <1>6, <2>7, <4>1, <4>2, <4>3, <4>4 DEF BusyStep, Effect, Goes, In
    <3> QED
      BY <1>4, <2>3, <2>7, <3>1 DEF Unseen
  <2>8. CASE ~Leaves(w) /\ ~AddsNothing
    <3>1. Adds(w, "open_ports") /\ worker'[w].pc \in {"grab", "post", "service"}
      BY <2>8 DEF BusyStep, Effect, Goes
    <3> QED
      BY <2>3, <2>4, <2>5, <3>1
  <2> QED
    BY <2>6, <2>7, <2>8
<1> QED
  BY <1>5, <1>6

LEMMA NextVerdict == TypeOK /\ VerdictInv /\ [Next]_vars => VerdictInv'
<1> SUFFICES ASSUME TypeOK, VerdictInv, [Next]_vars PROVE VerdictInv'
  OBVIOUS
<1>1. /\ scan \in ScanType /\ DOMAIN Jobs = 1..Len(Jobs) /\ Len(Jobs) \in Nat
      /\ submitted \in 0..Len(Jobs) /\ taken \in 0..submitted
      /\ \A m \in 1..Len(Jobs) : Jobs[m][1] \in Targets
      /\ \A v \in Workers : worker[v].job \in Nat
  BY JobsType, ScanAssumption DEF TypeOK, WorkerStates
<1>2. scan' = scan => /\ Jobs' = Jobs /\ (NoPostRetry' <=> NoPostRetry)
                      /\ \A n : Sole(n)' <=> Sole(n)
  BY JobsFixed DEF NoPostRetry
<1>3. CASE UNCHANGED <<scan, target_results, taken, worker>>
  BY <1>2, <1>3 DEF VerdictInv, Apart, JobVerdict, Unseen, In
<1>4. CASE ReportTarget
  <2>1. UNCHANGED <<scan, taken, worker>>
    BY <1>4 DEF ReportTarget
  <2>2. \A t \in Targets, b \in Buckets :
          Recorded(target_results'[t], b) \subseteq Recorded(target_results[t], b)
    BY <1>4, SyncAndDeduplicateType DEF ReportTarget, Write, TypeOK
  <2>3. \A n \in DOMAIN Jobs, b \in Buckets : In(n, b)' => In(n, b)
    BY <1>1, <1>2, <2>1, <2>2 DEF In
  <2>4. \A n \in DOMAIN Jobs : JobVerdict(n) => JobVerdict(n)'
    BY <2>1, <2>3 DEF JobVerdict, Unseen
  <2> QED
    BY <1>2, <2>1, <2>4 DEF VerdictInv, Apart
<1>5. ASSUME NEW w \in Workers, Take(w)
      PROVE  VerdictInv'
  <2>1. /\ worker'[w].job = taken + 1
        /\ \A v \in Workers \ {w} : worker'[v] = worker[v]
        /\ taken' = taken + 1
        /\ UNCHANGED <<scan, target_results>>
    BY <1>5, TakeType
  <2>2. Apart'
    BY <1>1, <2>1 DEF VerdictInv, Apart
  <2>3. ASSUME NEW n \in DOMAIN Jobs, JobVerdict(n)
        PROVE  JobVerdict(n)'
    <3>1. \A b \in Buckets : In(n, b)' <=> In(n, b)
      BY <1>2, <2>1 DEF In
    <3>2. n > taken' => n > taken
      BY <1>1, <2>1
    <3>3. worker'[w].job = n => Unseen(n)
      BY <1>1, <2>1, <2>3 DEF JobVerdict
    <3> QED
      BY <2>1, <2>3, <3>1, <3>2, <3>3 DEF JobVerdict, Unseen
  <2> QED
    BY <1>2, <2>1, <2>2, <2>3 DEF VerdictInv
<1>6. ASSUME NEW w \in Workers, Step(w), ~Take(w)
      PROVE  VerdictInv'
  <2>1. BusyStep(w) /\ UNCHANGED <<scan, taken>>
    BY <1>6, BusyStepEffect, BusyStepFrame
  <2> QED
    BY <1>2, <2>1, BusyApart, BusyVerdict DEF VerdictInv
<1>7. CASE Submit \/ FinishScan \/ FinishReport \/ UNCHANGED vars
  BY <1>3, <1>7 DEF Submit, FinishScan, FinishReport, vars, pool
<1> QED
  BY <1>4, <1>5, <1>6, <1>7 DEF Next, Main, Terminated

\* A port that one job scans never stands in two buckets of its target, for any
\* number of threads, targets, ports and retries, whatever the probes answer and
\* whichever calls raise, unless the answer to an open port may be retried.
THEOREM OneVerdictHolds == Spec => []OneVerdict
<1>1. TypeOK /\ VerdictInv => OneVerdict
  BY DEF VerdictInv, JobVerdict, OneVerdict, NoPostRetry, In
<1> QED
  BY <1>1, InitType, NextType, InitVerdict, NextVerdict, PTL DEF Spec

-----------------------------------------------------------------------------
(* What a busy worker does to the lists of its target *)

\* The lists of ports of the buckets B of the target of w gain the port of w, the lists of
\* services of the buckets S a service found for that port; no other list changes.
Lists(w, B, S) ==
  /\ target_results' \in [Targets -> Results]
  /\ \A t \in Targets \ {T(w)} : target_results'[t] = target_results[t]
  /\ \A c \in Buckets :
       /\ target_results'[T(w)].ports[c] =
            IF c \in B THEN Append(target_results[T(w)].ports[c], P(w))
                       ELSE target_results[T(w)].ports[c]
       /\ IF c \in S
          THEN \E v \in Services :
                 /\ v.port = P(w)
                 /\ target_results'[T(w)].services[c] =
                      Append(target_results[T(w)].services[c], v)
          ELSE target_results'[T(w)].services[c] = target_results[T(w)].services[c]

LEMMA RecordLists ==
  ASSUME TypeOK, NEW w \in Workers, ~On(w, "idle"), NEW b \in Buckets, Record(w, b)
  PROVE  Lists(w, {b}, {b})
<1> DEFINE r == target_results[T(w)]
           r1 == AppendPort(r, b, P(w))
           r2 == AppendService(r1, b, Table(P(w)))
<1>1. T(w) \in Targets /\ P(w) \in Ports /\ r \in Results
  BY BusyWorker
<1>2. Table(P(w)) \in Services /\ Table(P(w)).port = P(w)
  BY <1>1, TableIsService DEF Table
<1>3. r1 \in Results /\ r2 \in Results
  BY <1>1, <1>2, AppendPortType, AppendServiceType
<1>4. /\ r1.ports = [r.ports EXCEPT ![b] = Append(@, P(w))] /\ r1.services = r.services
      /\ r.ports \in [Buckets -> Seq(Ports)] /\ r.services \in [Buckets -> Seq(Services)]
  <2> HIDE DEF r
  <2> QED
    BY <1>1, <1>2 DEF AppendPort, Results
<1>5. /\ r2.ports = r1.ports
      /\ r2.services = [r1.services EXCEPT ![b] = Append(@, Table(P(w)))]
  <2> HIDE DEF r1
  <2> QED
    BY <1>2, <1>3 DEF AppendService, Results
<1>6. target_results' = [target_results EXCEPT ![T(w)] = r2]
  BY DEF Record, Write
<1> HIDE DEF r2, r1
<1>7. target_results' \in [Targets -> Results] /\ target_results'[T(w)] = r2
      /\ \A t \in Targets \ {T(w)} : target_results'[t] = target_results[t]
  BY <1>1, <1>3, <1>6 DEF TypeOK
<1>8. ASSUME NEW c \in Buckets
      PROVE  /\ r2.ports[c] = IF c = b THEN Append(r.ports[c], P(w)) ELSE r.ports[c]
             /\ r2.services[c] = IF c = b THEN Append(r.services[c], Table(P(w)))
                                          ELSE r.services[c]
  <2> HIDE DEF r
  <2> QED
    BY <1>4, <1>5
<1> QED
  BY <1>2, <1>7, <1>8 DEF Lists

LEMMA GrabLists ==
  ASSUME TypeOK, NEW w \in Workers, Grab(w)
  PROVE  Lists(w, {"open_ports"}, {})
<1> DEFINE r == target_results[T(w)]
           r1 == AppendPort(r, "open_ports", P(w))
<1>1. T(w) \in Targets /\ P(w) \in Ports /\ r \in Results
  BY BusyWorker DEF Grab, On
<1>2. "open_ports" \in Buckets
  BY DEF Buckets, PORT_TO_SERVICES
<1>3. r1 \in Results
  BY <1>1, <1>2, AppendPortType
<1>4. /\ r1.ports = [r.ports EXCEPT !["open_ports"] = Append(@, P(w))]
      /\ r1.services = r.services
      /\ r.ports \in [Buckets -> Seq(Ports)] /\ r.services \in [Buckets -> Seq(Services)]
  <2> HIDE DEF r
  <2> QED
    BY <1>1, <1>2 DEF AppendPort, Results
<1>5. target_results' = [target_results EXCEPT ![T(w)] = r1]
  BY DEF Grab, Write
<1> HIDE DEF r1
<1>6. target_results' \in [Targets -> Results] /\ target_results'[T(w)] = r1
      /\ \A t \in Targets \ {T(w)} : target_results'[t] = target_results[t]
  BY <1>1, <1>3, <1>5 DEF TypeOK
<1> QED
  BY <1>2, <1>4, <1>6 DEF Lists

LEMMA ServiceLists ==
  ASSUME TypeOK, NEW w \in Workers,
         GrabRaises(w) \/ RecordBanner(w) \/ RecordNoBanner(w)
  PROVE  Lists(w, {}, {"open_ports"})
<1> DEFINE r == target_results[T(w)]
           With(v) == AppendService(r, "open_ports", v)
<1>1. T(w) \in Targets /\ P(w) \in Ports /\ r \in Results
  BY BusyWorker DEF GrabRaises, RecordBanner, RecordNoBanner, On
<1>2. "open_ports" \in Buckets
  BY DEF Buckets, PORT_TO_SERVICES
<1>3. /\ Table(P(w)) \in Services /\ Table(P(w)).port = P(w)
      /\ Banner(P(w)) \in Services /\ Banner(P(w)).port = P(w)
  BY <1>1, TableIsService DEF Table, Banner
<1>4. ASSUME NEW v \in Services
      PROVE  /\ With(v) \in Results /\ With(v).ports = r.ports
             /\ With(v).services = [r.services EXCEPT !["open_ports"] = Append(@, v)]
  <2> HIDE DEF r
  <2> QED
    BY <1>1, <1>2, AppendServiceType DEF AppendService, Results
<1>5. ASSUME NEW v \in Services, NEW x \in Texts
      PROVE  /\ AppendBanner(With(v), x, P(w)) \in Results
             /\ AppendBanner(With(v), x, P(w)).ports = With(v).ports
             /\ AppendBanner(With(v), x, P(w)).services = With(v).services
  <2>1. With(v) \in Results
    BY <1>4
  <2> HIDE DEF With
  <2> QED
    BY <1>1, <2>1, AppendBannerType DEF AppendBanner, Results
<1> HIDE DEF With, r
<1>6. PICK v \in Services, q \in Results :
        /\ v.port = P(w) /\ target_results' = [target_results EXCEPT ![T(w)] = q]
        /\ q.ports = r.ports
        /\ q.services = [r.services EXCEPT !["open_ports"] = Append(@, v)]
  <2>1. CASE RecordBanner(w)
    <3>1. PICK x \in Texts : target_results' = [target_results EXCEPT ![T(w)] =
                               AppendBanner(With(Banner(P(w))), x, P(w))]
      BY <2>1 DEF RecordBanner, Write, With, r
    <3> DEFINE q == AppendBanner(With(Banner(P(w))), x, P(w))
    <3>2. /\ q \in Results /\ q.ports = r.ports
          /\ q.services = [r.services EXCEPT !["open_ports"] = Append(@, Banner(P(w)))]
      BY <1>3, <1>4, <1>5
    <3> HIDE DEF q
    <3> QED
      BY <1>3, <3>1, <3>2 DEF q
  <2>2. CASE GrabRaises(w) \/ RecordNoBanner(w)
    <3>1. target_results' = [target_results EXCEPT ![T(w)] = With(Table(P(w)))]
      BY <2>2 DEF GrabRaises, RecordNoBanner, Write, With, r
    <3> QED
      BY <1>3, <1>4, <3>1
  <2> QED
    BY <2>1, <2>2
<1>7. target_results' \in [Targets -> Results] /\ target_results'[T(w)] = q
      /\ \A t \in Targets \ {T(w)} : target_results'[t] = target_results[t]
  BY <1>1, <1>6 DEF TypeOK
<1>8. r.services \in [Buckets -> Seq(Services)]
  BY <1>1 DEF Results
<1>9. /\ q.services["open_ports"] = Append(r.services["open_ports"], v)
      /\ \A c \in Buckets \ {"open_ports"} : q.services[c] = r.services[c]
  BY <1>2, <1>6, <1>8
<1>10. ASSUME NEW c \in Buckets
       PROVE  /\ q.ports[c] = r.ports[c]
              /\ IF c = "open_ports"
                 THEN \E u \in Services : /\ u.port = P(w)
                                          /\ q.services[c] = Append(r.services[c], u)
                 ELSE q.services[c] = r.services[c]
  BY <1>6, <1>9
<1> QED
  BY <1>7, <1>10 DEF Lists, r

\* The steps of a busy worker by what they do to the lists: a port and its service at
\* once, the port before its banner is read, the service after that, or nothing.
Quietly == UNCHANGED <<failed, phase>>

Pairs(w) ==
  /\ worker[w].pc \in {"connect", "probe", "give_up"}
  /\ Quietly
  /\ \/ Leaves(w) /\ \E b \in Buckets : Lists(w, {b}, {b})
     \/ /\ Lists(w, {"open_ports"}, {"open_ports"})
        /\ Goes(w, {"post"}) \/ (scan.banner /\ Goes(w, {"grab"}))

Grabs(w) ==
  /\ worker[w].pc = "grab"
  /\ Quietly
  /\ Lists(w, {"open_ports"}, {})
  /\ Goes(w, {"service"})

Names(w) ==
  /\ worker[w].pc = "service" \/ (worker[w].pc = "grab" /\ "grab" \in scan.faults)
  /\ Quietly
  /\ Lists(w, {}, {"open_ports"})
  /\ Leaves(w) \/ Goes(w, {"post"})

Wonders(w) ==
  /\ Quietly
  /\ UNCHANGED target_results
  /\ \/ worker[w].pc = "probe" /\ Goes(w, {"probe", "check"})
     \/ worker[w].pc = "probe" /\ scan.banner /\ Goes(w, {"grab"})
     \/ worker[w].pc = "post" /\ (Leaves(w) \/ Goes(w, {"check", "probe"}))
     \/ /\ worker[w].pc = "check"
        /\ \/ P(w) \in Recorded(target_results[T(w)], "open_ports") /\ Leaves(w)
           \/ Goes(w, {"give_up"})

Raises(w) ==
  /\ worker[w].pc = "connect"
  /\ UNCHANGED target_results
  /\ failed' = failed \cup {worker[w].job}
  /\ phase' = IF Inline THEN "aborted" ELSE phase
  /\ Leaves(w)

WorkStep(w) ==
  /\ ~On(w, "idle")
  /\ UNCHANGED <<scan, submitted, taken, reported>>
  /\ \A v \in Workers \ {w} : worker'[v] = worker[v]
  /\ Pairs(w) \/ Grabs(w) \/ Names(w) \/ Wonders(w) \/ Raises(w)

LEMMA WorkStepEffect ==
  ASSUME TypeOK, NEW w \in Workers, Step(w), ~Take(w)
  PROVE  WorkStep(w)
<1>1. /\ ~On(w, "idle")
      /\ UNCHANGED <<scan, submitted, taken, reported>>
      /\ \A v \in Workers \ {w} : worker'[v] = worker[v]
  BY BusyStepEffect, BusyStepFrame DEF BusyStep
<1> SUFFICES Pairs(w) \/ Grabs(w) \/ Names(w) \/ Wonders(w) \/ Raises(w)
  BY <1>1 DEF WorkStep
<1>2. /\ \A l \in Labels : Goto(w, l) => Goes(w, {l})
      /\ Retry(w) => Goes(w, {"probe"})
      /\ Return(w) => Leaves(w)
  <2>1. \A j, l, a : Moves(w, j, l, a) =>
          worker'[w].job = j /\ worker'[w].pc = l /\ worker'[w] = [job |-> j, pc |-> l, attempt |-> a]
    BY DEF Moves
  <2>2. \A l \in Labels : Goto(w, l) => Goes(w, {l})
    BY <2>1, MoveTypes DEF Goes
  <2>3. Retry(w) => Goes(w, {"probe"})
    BY <2>1, MoveTypes DEF Goes
  <2>4. Return(w) => Leaves(w)
    BY <2>1, MoveTypes DEF Leaves, Idle
  <2> QED
    BY <2>2, <2>3, <2>4
<1>3. \A b \in Buckets : Record(w, b) => Lists(w, {b}, {b})
  BY <1>1, RecordLists
<1>4. {"open_ports", "closed_ports", "filtered_ports", "open_filtered_ports"}
        \subseteq Buckets
  BY DEF Buckets, PORT_TO_SERVICES
<1>5. AfterOpen(w) => Leaves(w) \/ Goes(w, {"post"})
  BY <1>2 DEF AfterOpen, Labels
<1>6. Except(w) => Goes(w, {"check"}) \/ Goes(w, {"probe"})
  BY <1>2 DEF Except, Labels
<1>7. UNCHANGED pool => Quietly
  BY DEF pool, Quietly
<1>8. CASE ConnectOpen(w)
  <2>1. Lists(w, {"open_ports"}, {"open_ports"}) /\ worker[w].pc = "connect" /\ Quietly
    BY <1>3, <1>4, <1>7, <1>8 DEF ConnectOpen, On
  <2>2. Leaves(w) \/ (scan.banner /\ Goes(w, {"grab"}))
    BY <1>2, <1>8 DEF ConnectOpen, Labels
  <2> QED
    BY <1>4, <2>1, <2>2 DEF Pairs
<1>9. CASE ConnectClosed(w) \/ ProbeClosed(w) \/ ProbeFiltered(w) \/ GiveUp(w)
  <2>1. /\ worker[w].pc \in {"connect", "probe", "give_up"} /\ Quietly
        /\ Record(w, "closed_ports") \/ Record(w, "filtered_ports")
        /\ Return(w)
    BY <1>7, <1>9 DEF ConnectClosed, ProbeClosed, ProbeFiltered, GiveUp, On
  <2> QED
    BY <1>2, <1>3, <1>4, <2>1 DEF Pairs
<1>10. CASE ConnectRaises(w)
  BY <1>2, <1>10 DEF ConnectRaises, On, Raises
<1>11. CASE ProbeSilent(w)
  <2>1. worker[w].pc = "probe" /\ Quietly
    BY <1>7, <1>11 DEF ProbeSilent, On
  <2>2. CASE LastAttempt(w)
    <3>1. /\ Record(w, "open_filtered_ports") \/ Record(w, "filtered_ports")
          /\ Return(w)
      BY <1>11, <2>2 DEF ProbeSilent
    <3> QED
      BY <1>2, <1>3, <1>4, <2>1, <3>1 DEF Pairs
  <2>3. CASE ~LastAttempt(w)
    <3>1. Retry(w) /\ UNCHANGED target_results
      BY <1>11, <2>3 DEF ProbeSilent
    <3>2. Goes(w, {"probe", "check"})
      BY <1>2, <3>1 DEF Goes
    <3> QED
      BY <2>1, <3>1, <3>2 DEF Wonders
  <2> QED
    BY <2>2, <2>3
<1>12. CASE ProbeOpen(w)
  <2>1. worker[w].pc = "probe" /\ Quietly
    BY <1>7, <1>12 DEF ProbeOpen, On
  <2>2. CASE scan.banner
    BY <1>2, <1>12, <2>1, <2>2 DEF ProbeOpen, Wonders, Labels
  <2>3. CASE ~scan.banner
    <3>1. Lists(w, {"open_ports"}, {"open_ports"}) /\ AfterOpen(w)
      BY <1>3, <1>4, <1>12, <2>3 DEF ProbeOpen
    <3> QED
      BY <1>4, <1>5, <2>1, <3>1 DEF Pairs
  <2> QED
    BY <2>2, <2>3
<1>13. CASE ProbeRaises(w) \/ PostRaises(w)
  <2>1. /\ worker[w].pc = "probe" \/ worker[w].pc = "post"
        /\ Quietly /\ UNCHANGED target_results /\ Except(w)
    BY <1>7, <1>13 DEF ProbeRaises, PostRaises, On
  <2>2. Goes(w, {"probe", "check"})
    BY <1>6, <2>1 DEF Goes
  <2> QED
    BY <2>1, <2>2 DEF Wonders
<1>14. CASE Post(w)
  BY <1>2, <1>7, <1>14 DEF Post, On, Wonders
<1>15. CASE CheckOpen(w)
  <2>1. worker[w].pc = "check" /\ Quietly /\ UNCHANGED target_results
    BY <1>7, <1>15 DEF CheckOpen, On
  <2> QED
    BY <1>2, <1>15, <2>1 DEF CheckOpen, Wonders, Labels
<1>16. CASE Grab(w)
  BY <1>2, <1>7, <1>16, GrabLists DEF Grab, On, Grabs, Labels
<1>17. CASE GrabRaises(w) \/ RecordBanner(w) \/ RecordNoBanner(w)
  <2>1. Lists(w, {}, {"open_ports"})
    BY <1>17, ServiceLists
  <2>2. /\ worker[w].pc = "service" \/ (worker[w].pc = "grab" /\ "grab" \in scan.faults)
        /\ Quietly /\ AfterOpen(w)
    BY <1>7, <1>17 DEF GrabRaises, RecordBanner, RecordNoBanner, On
  <2> QED
    BY <1>5, <2>1, <2>2 DEF Names
<1> QED
  BY <1>8, <1>9, <1>10, <1>11, <1>12, <1>13, <1>14, <1>15, <1>16, <1>17 DEF Step

\* The port of job n stands in bucket c after the step of w if it did or w added it.
LEMMA ListsIn ==
  ASSUME TypeOK, NEW w \in Workers, ~On(w, "idle"), scan' = scan,
         NEW B, NEW S, Lists(w, B, S),
         NEW n \in DOMAIN Jobs, NEW c \in Buckets
  PROVE  In(n, c)' <=> \/ In(n, c)
                       \/ c \in B /\ Jobs[n][1] = T(w) /\ Jobs[n][2] = P(w)
<1>1. /\ T(w) \in Targets /\ P(w) \in Ports /\ target_results[T(w)] \in Results
      /\ Jobs[n][1] \in Targets /\ Jobs' = Jobs
  BY BusyWorker, JobsType, JobsFixed DEF BusyStep
<1>2. CASE Jobs[n][1] # T(w)
  BY <1>1, <1>2 DEF Lists, In
<1>3. CASE Jobs[n][1] = T(w) /\ c \notin B
  <2>1. target_results'[T(w)].ports[c] = target_results[T(w)].ports[c]
    BY <1>3 DEF Lists
  <2> QED
    BY <1>1, <1>3, <2>1 DEF In, Recorded
<1>4. CASE Jobs[n][1] = T(w) /\ c \in B
  <2> DEFINE q == target_results[T(w)].ports[c]
  <2>1. q \in Seq(Ports) /\ target_results'[T(w)].ports[c] = Append(q, P(w))
    BY <1>1, <1>4 DEF Lists, Results
  <2>2. Recorded(target_results'[T(w)], c) = Recorded(target_results[T(w)], c) \cup {P(w)}
    <3> HIDE DEF q
    <3>1. {Append(q, P(w))[i] : i \in DOMAIN Append(q, P(w))} = {q[i] : i \in DOMAIN q} \cup {P(w)}
      BY <1>1, <2>1, AppendElements
    <3> QED
      BY <2>1, <3>1 DEF Recorded, q
  <2> QED
    BY <1>1, <1>4, <2>2 DEF In
<1> QED
  BY <1>2, <1>3, <1>4
-----------------------------------------------------------------------------
(* When nothing is written any more *)

\* Only the threads of the pool ever work, all of them are idle once the scan is over or
\* aborted, and nothing is printed before; a thread reads a banner only if told to.
Quiet ==
  /\ phase # "scan" => \A w \in Workers : On(w, "idle")
  /\ phase \in {"report", "done"} => taken = Len(Jobs)
  /\ phase \in {"scan", "aborted"} => reported = 0
  /\ \A w \in Workers : w > scan.max_threads => On(w, "idle")
  /\ \A w \in Workers : worker[w].pc \in {"grab", "service"} => scan.banner

LEMMA InitQuiet == Init => Quiet
  BY DEF Init, Quiet, On, Idle

LEMMA NextQuiet == TypeOK /\ Quiet /\ [Next]_vars => Quiet'
<1> SUFFICES ASSUME TypeOK, Quiet, [Next]_vars PROVE Quiet'
  OBVIOUS
<1>1. /\ scan' = scan => Jobs' = Jobs
      /\ phase \in {"scan", "report", "done", "aborted"}
      /\ scan.max_threads \in Workers /\ Workers = 1..MaxThreads /\ MaxThreads \in Nat
  BY JobsFixed, ScanAssumption DEF TypeOK, ScanType, Workers
<1>2. CASE Submit \/ FinishScan \/ ReportTarget \/ FinishReport \/ UNCHANGED vars
  <2>1. UNCHANGED <<scan, taken, worker>>
    BY <1>2 DEF Submit, FinishScan, ReportTarget, FinishReport, vars, pool
  <2>2. /\ phase' # "scan" => \A w \in Workers : On(w, "idle")
        /\ phase' \in {"report", "done"} => taken = Len(Jobs)
        /\ phase' \in {"scan", "aborted"} => reported' = 0
    BY <1>2 DEF Submit, FinishScan, ReportTarget, FinishReport, vars, pool, Quiet
  <2> QED
    BY <1>1, <2>1, <2>2 DEF Quiet, On
<1>3. ASSUME NEW w \in Workers, Take(w)
      PROVE  Quiet'
  <2>1. /\ worker'[w].pc \in {"connect", "probe"}
        /\ \A v \in Workers \ {w} : worker'[v] = worker[v]
        /\ UNCHANGED <<scan, phase, reported>>
        /\ phase = "scan" /\ w <= scan.max_threads
    BY <1>3, TakeType DEF Take
  <2>2. ~(w > scan.max_threads)
    BY <1>1, <2>1
  <2> QED
    BY <1>1, <2>1, <2>2 DEF Quiet, On
<1>4. ASSUME NEW w \in Workers, WorkStep(w)
      PROVE  Quiet'
  <2>1. /\ phase = "scan" /\ reported = 0 /\ ~(w > scan.max_threads)
        /\ UNCHANGED <<scan, reported>>
        /\ \A v \in Workers \ {w} : worker'[v] = worker[v]
    BY <1>4 DEF WorkStep, Quiet, TypeOK
  <2>2. phase' \in {"scan", "aborted"}
    BY <1>4, <2>1 DEF WorkStep, Pairs, Grabs, Names, Wonders, Raises, Quietly
  <2>3. worker'[w].pc \in {"grab", "service"} => scan.banner
    <3>1. worker[w].pc = "grab" => scan.banner
      BY DEF Quiet
    <3>2. Leaves(w) => worker'[w].pc = "idle"
      BY DEF Leaves, Idle
    <3>3. CASE Pairs(w) \/ Grabs(w) \/ Names(w) \/ Raises(w)
      BY <3>1, <3>2, <3>3 DEF Pairs, Grabs, Names, Raises, Goes
    <3>4. CASE Wonders(w)
      BY <3>1, <3>2, <3>4 DEF Wonders, Goes
    <3> QED
      BY <1>4, <3>3, <3>4 DEF WorkStep
  <2>4. phase' = "aborted" => Inline /\ worker'[w].pc = "idle"
    BY <1>4, <2>1 DEF WorkStep, Pairs, Grabs, Names, Wonders, Raises, Quietly, Leaves, Idle
  <2>5. Inline => \A v \in Workers \ {w} : On(v, "idle")
    <3> SUFFICES ASSUME Inline, NEW v \in Workers \ {w} PROVE On(v, "idle")
      OBVIOUS
    <3>1. w = 1
      BY <1>1, <2>1 DEF Inline
    <3>2. v > 1
      BY <1>1, <3>1
    <3> QED
      BY <3>2 DEF Inline, Quiet
  <2> QED
    BY <2>1, <2>2, <2>3, <2>4, <2>5 DEF Quiet, On
<1> QED
  BY <1>2, <1>3, <1>4, WorkStepEffect DEF Next, Main, Terminated

\* What was printed was normalised, and stays as it is.
ReportedClean == \A t \in Targets : Reported(t) => CleanRecord(target_results[t])

\* ReportTarget prints one target: the record it normalised before it leaves alone.
LEMMA ReportTargetEffect ==
  ASSUME TypeOK, ReportedClean, ReportTarget
  PROVE  /\ \A t \in Targets : Reported(t) => target_results'[t] = target_results[t]
         /\ \A t \in Targets : Reported(t)' => CleanRecord(target_results'[t])
         /\ \A t \in Targets : \/ target_results'[t] = target_results[t]
                               \/ target_results'[t] = SyncAndDeduplicate(target_results[t])
<1> DEFINE u == scan.targetss[reported + 1]
<1>1. /\ scan.targetss \in Seq(Targets) /\ Len(scan.targetss) \in Nat
      /\ reported \in 0..Len(scan.targetss) /\ reported < Len(scan.targetss)
      /\ target_results \in [Targets -> Results]
  BY ScanAssumption DEF TypeOK, ScanType, ReportTarget
<1>2. u \in Targets
  BY <1>1
<1>3. /\ target_results' = [target_results EXCEPT ![u] = SyncAndDeduplicate(target_results[u])]
      /\ reported' = reported + 1 /\ scan' = scan
  BY DEF ReportTarget, Write
<1>4. \A t \in Targets : Reported(t)' => Reported(t) \/ t = u
  <2>1. \A k \in 1 .. reported + 1 : k \in 1..reported \/ k = reported + 1
    BY <1>1
  <2> QED
    BY <1>3, <2>1 DEF Reported
<1> HIDE DEF u
<1>5. \A t \in Targets : target_results'[t] =
        IF t = u THEN SyncAndDeduplicate(target_results[t]) ELSE target_results[t]
  BY <1>1, <1>2, <1>3
<1>6. \A t \in Targets : Reported(t) => target_results'[t] = target_results[t]
  BY <1>1, <1>5, SyncFixed DEF ReportedClean
<1>7. ASSUME NEW t \in Targets, Reported(t)' PROVE CleanRecord(target_results'[t])
  <2>1. CASE t = u
    BY <1>1, <1>5, <2>1, SyncClean
  <2>2. CASE t # u
    BY <1>4, <1>6, <1>7, <2>2 DEF ReportedClean
  <2> QED
    BY <2>1, <2>2
<1> QED
  BY <1>5, <1>6, <1>7

\* No step but ReportTarget touches a record while anything is printed.
LEMMA ReportedStays ==
  ASSUME TypeOK, Quiet, [Next]_vars, ~ReportTarget
  PROVE  \/ UNCHANGED <<scan, reported, target_results>>
         \/ scan' = scan /\ reported = 0 /\ reported' = 0
<1>1. CASE Submit \/ FinishScan \/ FinishReport \/ UNCHANGED vars
  BY <1>1 DEF Submit, FinishScan, FinishReport, vars, pool
<1>2. ASSUME NEW w \in Workers, Take(w)
      PROVE  UNCHANGED <<scan, reported, target_results>>
  BY <1>2 DEF Take
<1>3. ASSUME NEW w \in Workers, WorkStep(w)
      PROVE  scan' = scan /\ reported = 0 /\ reported' = 0
  BY <1>3 DEF WorkStep, Quiet, TypeOK
<1> QED
  BY <1>1, <1>2, <1>3, WorkStepEffect DEF Next, Main, Terminated

LEMMA NextReported == TypeOK /\ Quiet /\ ReportedClean /\ [Next]_vars => ReportedClean'
<1> SUFFICES ASSUME TypeOK, Quiet, ReportedClean, [Next]_vars PROVE ReportedClean'
  OBVIOUS
<1>1. CASE ReportTarget
  BY <1>1, ReportTargetEffect DEF ReportedClean
<1>2. CASE UNCHANGED <<scan, reported, target_results>>
  BY <1>2 DEF ReportedClean, Reported
<1>3. CASE reported' = 0
  BY <1>3 DEF ReportedClean, Reported
<1> QED
  BY <1>1, <1>2, <1>3, ReportedStays

LEMMA InitReported == Init => ReportedClean
  BY DEF Init, ReportedClean, Reported

\* Once the record of a target is printed it never changes again, for any number of
\* threads: no late worker writes, and a target that is listed twice is normalised to
\* what was printed first.
THEOREM ReportedIsFinalHolds == Spec => ReportedIsFinal
<1>1. TypeOK /\ Quiet /\ ReportedClean /\ [Next]_vars =>
        [\A t \in Targets : Reported(t) => target_results'[t] = target_results[t]]_vars
  <2> SUFFICES ASSUME TypeOK, Quiet, ReportedClean, [Next]_vars
               PROVE  \A t \in Targets : Reported(t) => target_results'[t] = target_results[t]
    OBVIOUS
  <2> QED
    BY ReportTargetEffect, ReportedStays DEF Reported
<1> QED
  BY <1>1, InitType, NextType, InitQuiet, NextQuiet, InitReported, NextReported, PTL
     DEF Spec, ReportedIsFinal

\* A printed record names each port once per bucket beside as many services, although
\* retries, repeated ports and banner grabs append a port several times.
THEOREM ReportedOnceHolds == Spec => []ReportedOnce
<1>1. TypeOK /\ ReportedClean => ReportedOnce
  <2> SUFFICES ASSUME TypeOK, ReportedClean, NEW t \in Targets, Reported(t),
                      NEW b \in SyncedBuckets, NEW r, r = target_results[t]
               PROVE  /\ Cardinality(Recorded(r, b)) = Len(r.ports[b])
                      /\ Len(r.services[b]) = Len(r.ports[b])
    BY DEF ReportedOnce
  <2>1. r \in Results /\ b \in Buckets
    BY DEF TypeOK, SyncedBuckets, Buckets, PORT_TO_SERVICES
  <2>2. r.ports[b] \in Seq(Ports) /\ Clean(r.ports[b], r.services[b])
    BY <2>1 DEF ReportedClean, CleanRecord, Results
  <2>3. Cardinality(Recorded(r, b)) = Len(r.ports[b])
    BY <2>2, CleanCounts DEF Recorded
  <2> QED
    BY <2>2, <2>3 DEF Clean
<1> QED
  BY <1>1, InitType, NextType, InitQuiet, NextQuiet, InitReported, NextReported, PTL DEF Spec
-----------------------------------------------------------------------------
(* No port is lost *)

\* The threads that have appended the port of target t and not yet the service.
Naming(t) == {w \in Workers : On(w, "service") /\ T(w) = t}

\* Every port has a service to stand beside, or a thread that is about to append one:
\* the zip of _sync_and_deduplicate_ports stops after the last port at the earliest.
Lengths ==
  \A t \in Targets, b \in Buckets :
    Len(target_results[t].ports[b]) <=
      Len(target_results[t].services[b])
        + (IF b = "open_ports" THEN Cardinality(Naming(t)) ELSE 0)

LEMMA NamingFinite ==
  ASSUME NEW t
  PROVE  IsFiniteSet(Naming(t)) /\ Cardinality(Naming(t)) \in Nat
<1>1. IsFiniteSet(Workers)
  BY ScanAssumption, FS_Interval DEF Workers
<1>2. Naming(t) \in SUBSET Workers
  BY DEF Naming
<1> QED
  BY <1>1, <1>2, FS_Subset, FS_CardinalityType

\* A step of w concerns the membership of w only.
LEMMA NamingStep ==
  ASSUME TypeOK, NEW w \in Workers, ~On(w, "idle"), scan' = scan,
         \A v \in Workers \ {w} : worker'[v] = worker[v],
         Leaves(w) \/ worker'[w].job = worker[w].job, NEW t
  PROVE  Naming(t)' = IF worker'[w].pc = "service" /\ T(w) = t
                      THEN Naming(t) \cup {w} ELSE Naming(t) \ {w}
<1>1. Jobs' = Jobs
  BY JobsFixed
<1>2. worker'[w].pc = "service" => worker'[w].job = worker[w].job
  BY DEF Leaves, Idle
<1> QED
  BY <1>1, <1>2 DEF Naming, On, T

LEMMA InitLengths == Init => Lengths
<1> SUFFICES ASSUME Init, NEW t \in Targets, NEW b \in Buckets
             PROVE  Len(target_results[t].ports[b]) <=
                      Len(target_results[t].services[b])
                        + (IF b = "open_ports" THEN Cardinality(Naming(t)) ELSE 0)
  BY DEF Lengths
<1>1. Len(target_results[t].ports[b]) = 0 /\ Len(target_results[t].services[b]) = 0
  BY DEF Init, initialize_target_results
<1> QED
  BY <1>1, NamingFinite

LEMMA WorkLengths ==
  ASSUME TypeOK, Lengths, NEW w \in Workers, WorkStep(w)
  PROVE  Lengths'
<1> DEFINE n(t) == Cardinality(Naming(t))
           Late(b, t) == IF b = "open_ports" THEN n(t) ELSE 0
<1>1. /\ ~On(w, "idle") /\ scan' = scan /\ worker[w].pc # "idle"
      /\ \A v \in Workers \ {w} : worker'[v] = worker[v]
      /\ Leaves(w) \/ worker'[w].job = worker[w].job
      /\ T(w) \in Targets
  BY BusyWorker DEF WorkStep, Pairs, Grabs, Names, Wonders, Raises, Goes, On
<1>2. \A t : Naming(t)' = IF worker'[w].pc = "service" /\ T(w) = t
                          THEN Naming(t) \cup {w} ELSE Naming(t) \ {w}
  BY <1>1, NamingStep
<1>3. \A t : w \in Naming(t) <=> worker[w].pc = "service" /\ T(w) = t
  BY DEF Naming, On
<1>4. \A t : (worker'[w].pc = "service" <=> worker[w].pc = "service") \/ T(w) # t
             => Naming(t)' = Naming(t)
  BY <1>2, <1>3
<1>5. \A t : /\ IsFiniteSet(Naming(t)) /\ n(t) \in Nat
             /\ Cardinality(Naming(t) \cup {w}) = IF w \in Naming(t) THEN n(t) ELSE n(t) + 1
             /\ Cardinality(Naming(t) \ {w}) = IF w \in Naming(t) THEN n(t) - 1 ELSE n(t)
  BY NamingFinite, FS_AddElement, FS_RemoveElement
<1> SUFFICES ASSUME NEW t \in Targets, NEW c \in Buckets
             PROVE  Len(target_results'[t].ports[c]) <=
                      Len(target_results'[t].services[c])
                        + (IF c = "open_ports" THEN Cardinality(Naming(t)') ELSE 0)
  BY DEF Lengths
<1> DEFINE q == Len(target_results[t].ports[c])
           s == Len(target_results[t].services[c])
           Goal == Len(target_results'[t].ports[c]) <=
                     Len(target_results'[t].services[c])
                       + (IF c = "open_ports" THEN Cardinality(Naming(t)') ELSE 0)
<1>6. q \in Nat /\ s \in Nat /\ q <= s + Late(c, t) /\ n(t) \in Nat
  BY <1>5 DEF Lengths, TypeOK, Results
<1>7. ASSUME target_results'[t] = target_results[t], Naming(t)' = Naming(t)
      PROVE  Goal
  BY <1>6, <1>7
<1>8. CASE T(w) # t
  <2>1. target_results'[t] = target_results[t]
    BY <1>8 DEF WorkStep, Pairs, Grabs, Names, Wonders, Raises, Lists
  <2> QED
    BY <1>4, <1>7, <1>8, <2>1
<1>9. ASSUME NEW B, NEW S, T(w) = t, Lists(w, B, S)
      PROVE  /\ Len(target_results'[t].ports[c]) = q + (IF c \in B THEN 1 ELSE 0)
             /\ Len(target_results'[t].services[c]) = s + (IF c \in S THEN 1 ELSE 0)
  <2> DEFINE ps == target_results[t].ports[c]
             ss == target_results[t].services[c]
  <2>1. ps \in Seq(Ports) /\ ss \in Seq(Services) /\ P(w) \in Ports
    BY <1>1, BusyWorker DEF TypeOK, Results
  <2>2. /\ target_results'[t].ports[c] = IF c \in B THEN Append(ps, P(w)) ELSE ps
        /\ IF c \in S
           THEN \E v \in Services : target_results'[t].services[c] = Append(ss, v)
           ELSE target_results'[t].services[c] = ss
    BY <1>9 DEF Lists
  <2> HIDE DEF ps, ss
  <2>3. Len(ps) \in Nat /\ Len(Append(ps, P(w))) = Len(ps) + 1
    BY <2>1, AppendLen
  <2>4. Len(ss) \in Nat /\ \A v \in Services : Len(Append(ss, v)) = Len(ss) + 1
    BY <2>1, AppendLen
  <2>5. q = Len(ps) /\ s = Len(ss)
    BY DEF q, s, ps, ss
  <2> QED
    BY <2>2, <2>3, <2>4, <2>5
<1> HIDE DEF q, s
<1>10. "open_ports" \in Buckets
  BY DEF Buckets, PORT_TO_SERVICES
<1>11. Leaves(w) => worker'[w].pc = "idle"
  BY DEF Leaves, Idle
<1>12. CASE T(w) = t /\ Pairs(w)
  <2>1. PICK b \in Buckets : Lists(w, {b}, {b})
    BY <1>10, <1>12 DEF Pairs
  <2>2. worker[w].pc # "service" /\ worker'[w].pc # "service"
    BY <1>11, <1>12 DEF Pairs, Goes
  <2>3. /\ Len(target_results'[t].ports[c]) = q + (IF c \in {b} THEN 1 ELSE 0)
        /\ Len(target_results'[t].services[c]) = s + (IF c \in {b} THEN 1 ELSE 0)
    BY <1>12, <1>9, <2>1
  <2>4. Naming(t)' = Naming(t)
    BY <1>4, <2>2
  <2> QED
    BY <1>6, <2>3, <2>4
<1>13. CASE T(w) = t /\ Grabs(w)
  <2>1. /\ Len(target_results'[t].ports[c]) = q + (IF c \in {"open_ports"} THEN 1 ELSE 0)
        /\ Len(target_results'[t].services[c]) = s + (IF c \in {} THEN 1 ELSE 0)
    BY <1>13, <1>9 DEF Grabs
  <2>2. worker[w].pc = "grab" /\ worker'[w].pc = "service"
    BY <1>13 DEF Grabs, Goes
  <2>3. Naming(t)' = Naming(t) \cup {w} /\ w \notin Naming(t)
    BY <1>2, <1>3, <1>13, <2>2
  <2>4. Cardinality(Naming(t)') = n(t) + 1
    BY <1>5, <2>3
  <2> QED
    BY <1>6, <2>1, <2>4
<1>14. CASE T(w) = t /\ Names(w)
  <2>1. /\ Len(target_results'[t].ports[c]) = q + (IF c \in {} THEN 1 ELSE 0)
        /\ Len(target_results'[t].services[c]) = s + (IF c \in {"open_ports"} THEN 1 ELSE 0)
    BY <1>14, <1>9 DEF Names
  <2>2. worker'[w].pc # "service"
    BY <1>11, <1>14 DEF Names, Goes
  <2>3. Naming(t)' = Naming(t) \ {w}
    BY <1>2, <2>2
  <2>4. Cardinality(Naming(t)') >= n(t) - 1 /\ Cardinality(Naming(t)') \in Int
    BY <1>5, <2>3
  <2> QED
    BY <1>6, <2>1, <2>4
<1>15. CASE T(w) = t /\ (Wonders(w) \/ Raises(w))
  <2>1. target_results'[t] = target_results[t]
    BY <1>15 DEF Wonders, Raises
  <2>2. worker[w].pc # "service" /\ worker'[w].pc # "service"
    BY <1>11, <1>15 DEF Wonders, Raises, Goes
  <2> QED
    BY <1>4, <1>7, <2>1, <2>2
<1> QED
  BY <1>8, <1>12, <1>13, <1>14, <1>15 DEF WorkStep

\* The clean-up of the report takes no port from a list: no thread owes a service any more.
LEMMA ReportKeeps ==
  ASSUME TypeOK, Quiet, Lengths, ReportTarget
  PROVE  \A t \in Targets, b \in Buckets :
           /\ Recorded(target_results'[t], b) = Recorded(target_results[t], b)
           /\ Len(target_results'[t].ports[b]) <= Len(target_results'[t].services[b])
<1>1. \A t : Naming(t) = {}
  BY DEF ReportTarget, Quiet, Naming, On
<1>2. Cardinality({}) = 0
  BY FS_EmptySet
<1> TAKE t \in Targets, b \in Buckets
<1>3. Len(target_results[t].services[b]) \in Nat /\ target_results[t] \in Results
  BY DEF TypeOK, Results
<1>4. Len(target_results[t].ports[b]) <= Len(target_results[t].services[b])
        + (IF b = "open_ports" THEN 0 ELSE 0)
  BY <1>1, <1>2 DEF Lengths
<1>5. Len(target_results[t].ports[b]) <= Len(target_results[t].services[b])
  BY <1>3, <1>4
<1> DEFINE s == SyncAndDeduplicate(target_results[t])
<1>6. /\ Recorded(s, b) = Recorded(target_results[t], b)
      /\ Len(s.ports[b]) <= Len(s.services[b])
  BY <1>3, <1>5, SyncKeeps
<1>7. target_results'[t] = target_results[t] \/ target_results'[t] = s
  BY DEF ReportTarget, Write, TypeOK
<1> QED
  BY <1>5, <1>6, <1>7

LEMMA NextLengths == TypeOK /\ Quiet /\ Lengths /\ [Next]_vars => Lengths'
<1> SUFFICES ASSUME TypeOK, Quiet, Lengths, [Next]_vars PROVE Lengths'
  OBVIOUS
<1>1. CASE Submit \/ FinishScan \/ FinishReport \/ UNCHANGED vars
  <2>1. UNCHANGED <<scan, target_results, worker>>
    BY <1>1 DEF Submit, FinishScan, FinishReport, vars, pool
  <2>2. Jobs' = Jobs
    BY <2>1, JobsFixed
  <2>3. \A t : Naming(t)' = Naming(t)
    BY <2>1, <2>2 DEF Naming, On, T
  <2> QED
    BY <2>1, <2>3 DEF Lengths
<1>2. ASSUME NEW w \in Workers, Take(w)
      PROVE  Lengths'
  <2>1. /\ worker'[w].pc \in {"connect", "probe"} /\ worker[w].pc = "idle"
        /\ \A v \in Workers \ {w} : worker'[v] = worker[v]
        /\ UNCHANGED <<scan, target_results>>
    BY <1>2, TakeType DEF Take, On
  <2>2. Jobs' = Jobs
    BY <2>1, JobsFixed
  <2>3. \A t : Naming(t)' = Naming(t)
    BY <2>1, <2>2 DEF Naming, On, T
  <2> QED
    BY <2>1, <2>3 DEF Lengths
<1>3. CASE ReportTarget
  <2>1. UNCHANGED <<scan, worker>> /\ phase = "report"
    BY <1>3 DEF ReportTarget
  <2>2. \A t : Naming(t) = {} /\ Naming(t)' = {}
    BY <2>1 DEF Quiet, Naming, On
  <2>3. Cardinality({}) = 0
    BY FS_EmptySet
  <2>4. \A t \in Targets, b \in Buckets :
          Len(target_results'[t].ports[b]) <= Len(target_results'[t].services[b])
    BY <1>3, ReportKeeps
  <2>5. target_results' \in [Targets -> Results]
    BY <1>3, NextType DEF TypeOK, Next, Main
  <2>6. ASSUME NEW t \in Targets, NEW b \in Buckets
        PROVE  Len(target_results'[t].services[b]) \in Nat
    BY <2>5 DEF Results
  <2>7. ASSUME NEW t \in Targets, NEW b \in Buckets
        PROVE  Len(target_results'[t].ports[b]) <=
                 Len(target_results'[t].services[b])
                   + (IF b = "open_ports" THEN Cardinality(Naming(t)') ELSE 0)
    <3>1. Cardinality(Naming(t)') = 0
      BY <2>2, <2>3
    <3> DEFINE x == Len(target_results'[t].ports[b])
               y == Len(target_results'[t].services[b])
    <3>2. x <= y /\ y \in Nat
      BY <2>4, <2>6
    <3> HIDE DEF x, y
    <3>3. x <= y + (IF b = "open_ports" THEN Cardinality(Naming(t)') ELSE 0)
      BY <3>1, <3>2
    <3> QED
      BY <3>3 DEF x, y
  <2> QED
    BY <2>7 DEF Lengths
<1> QED
  BY <1>1, <1>2, <1>3, WorkLengths, WorkStepEffect DEF Next, Main, Terminated

Held(n) == \E w \in Workers : worker[w].job = n

\* Unless a banner grab may raise, a thread that is past the append of its port left it in
\* open_ports, and a job that was taken is held by a thread, has raised or has a verdict.
Settled ==
  "grab" \notin scan.faults =>
    /\ \A n \in DOMAIN Jobs, w \in Workers :
         worker[w].job = n /\ worker[w].pc \in {"service", "post"} => In(n, "open_ports")
    /\ \A n \in DOMAIN Jobs :
         n <= taken => Held(n) \/ n \in failed \/ \E b \in Buckets : In(n, b)

LEMMA InitSettled == Init => Settled
<1> SUFFICES ASSUME Init PROVE Settled
  OBVIOUS
<1>1. taken = 0 /\ \A w \in Workers : worker[w].pc = "idle"
  BY DEF Init, Idle
<1>2. DOMAIN Jobs = 1..Len(Jobs) /\ Len(Jobs) \in Nat
  BY JobsType, ScanAssumption DEF Init
<1> QED
  BY <1>1, <1>2 DEF Settled

\* A step of a busy worker takes no port from a list.
LEMMA WorkKeeps ==
  ASSUME TypeOK, NEW w \in Workers, BusyStep(w), scan' = scan,
         NEW n \in DOMAIN Jobs, NEW c \in Buckets, In(n, c)
  PROVE  In(n, c)'
<1>1. Jobs' = Jobs /\ Jobs[n][1] \in Targets
  BY JobsFixed, JobsType, ScanAssumption DEF TypeOK
<1>2. (\E b \in Buckets : Adds(w, b)) \/ AddsNothing
  BY DEF BusyStep, Effect, Buckets, PORT_TO_SERVICES
<1>3. Recorded(target_results[Jobs[n][1]], c) \subseteq Recorded(target_results'[Jobs[n][1]], c)
  BY <1>1, <1>2 DEF Adds, AddsNothing
<1> QED
  BY <1>1, <1>3 DEF In

\* What a thread leaves behind for its job: it goes on to answer the peer only after it
\* appended its port, and it returns with a verdict or has raised.
LEMMA WorkSettles ==
  ASSUME TypeOK, Settled, NEW w \in Workers, BusyStep(w), WorkStep(w),
         "grab" \notin scan.faults, NEW j, j = worker[w].job
  PROVE  /\ j \in DOMAIN Jobs
         /\ worker'[w].pc \in {"service", "post"} => In(j, "open_ports")'
         /\ Leaves(w) => j \in failed' \/ \E b \in Buckets : In(j, b)'
<1>1. /\ j \in DOMAIN Jobs /\ Jobs[j][1] = T(w) /\ Jobs[j][2] = P(w)
      /\ ~On(w, "idle") /\ scan' = scan /\ "open_ports" \in Buckets
  BY BusyWorker, JobsType DEF WorkStep, T, P, Buckets, PORT_TO_SERVICES
<1>2. Leaves(w) => worker'[w].pc = "idle"
  BY DEF Leaves, Idle
<1>3. worker[w].pc \in {"service", "post"} => In(j, "open_ports")
  BY <1>1 DEF Settled
<1>4. In(j, "open_ports") => In(j, "open_ports")'
  BY <1>1, WorkKeeps
<1>5. CASE Pairs(w)
  <2>1. PICK b \in Buckets :
          /\ Lists(w, {b}, {b})
          /\ Leaves(w) \/ b = "open_ports"
    BY <1>1, <1>5 DEF Pairs
  <2>2. In(j, b)'
    BY <1>1, <2>1, ListsIn
  <2>3. Leaves(w) \/ In(j, "open_ports")'
    BY <2>1, <2>2
  <2> QED
    BY <1>1, <1>2, <2>2, <2>3
<1>6. CASE Grabs(w)
  <2>1. Lists(w, {"open_ports"}, {})
    BY <1>6 DEF Grabs
  <2>2. In(j, "open_ports")'
    BY <1>1, <2>1, ListsIn
  <2> QED
    BY <1>1, <2>2
<1>7. CASE Names(w)
  <2>1. worker[w].pc = "service"
    BY <1>7 DEF Names
  <2> QED
    BY <1>1, <1>3, <1>4, <2>1
<1>8. CASE Wonders(w)
  <2>1. worker[w].pc \in {"service", "post"} => In(j, "open_ports")'
    BY <1>3, <1>4
  <2>2. worker[w].pc = "check" /\ Leaves(w) => In(j, "open_ports")'
    <3>1. worker[w].pc = "check" /\ Leaves(w) =>
            P(w) \in Recorded(target_results[T(w)], "open_ports")
      BY <1>2, <1>8 DEF Wonders, Goes
    <3> QED
      BY <1>1, <1>4, <3>1 DEF In
  <2>3. worker'[w].pc \notin {"service", "post"}
    BY <1>2, <1>8 DEF Wonders, Goes
  <2>4. Leaves(w) => worker[w].pc \in {"post", "check"}
    BY <1>2, <1>8 DEF Wonders, Goes
  <2> QED
    BY <1>1, <2>1, <2>2, <2>3, <2>4
<1>9. CASE Raises(w)
  BY <1>1, <1>2, <1>9 DEF Raises
<1> QED
  BY <1>5, <1>6, <1>7, <1>8, <1>9 DEF WorkStep

LEMMA ScanStays == TypeOK /\ [Next]_vars => scan' = scan
<1> SUFFICES ASSUME TypeOK, [Next]_vars PROVE scan' = scan
  OBVIOUS
<1>1. CASE UNCHANGED vars \/ Main
  BY <1>1 DEF Main, Submit, FinishScan, ReportTarget, FinishReport, vars, pool
<1>2. ASSUME NEW w \in Workers, Step(w) PROVE scan' = scan
  BY <1>2, WorkStepEffect, TakeType DEF WorkStep
<1> QED
  BY <1>1, <1>2 DEF Next, Terminated

LEMMA NextSettled ==
  TypeOK /\ Quiet /\ Lengths /\ Settled /\ [Next]_vars => Settled'
<1> SUFFICES ASSUME TypeOK, Quiet, Lengths, Settled, [Next]_vars PROVE Settled'
  OBVIOUS
<1> SUFFICES ASSUME "grab" \notin scan.faults PROVE Settled'
  BY ScanStays DEF Settled
<1>1. /\ scan \in ScanType /\ DOMAIN Jobs = 1..Len(Jobs) /\ Len(Jobs) \in Nat
      /\ \A m \in DOMAIN Jobs : Jobs[m][1] \in Targets
      /\ taken \in Nat
  BY JobsType, ScanAssumption DEF TypeOK
<1>2. scan' = scan => Jobs' = Jobs
  BY JobsFixed
<1>3. CASE Submit \/ FinishScan \/ FinishReport \/ UNCHANGED vars
  <2>1. UNCHANGED <<scan, target_results, taken, worker, failed>>
    BY <1>3 DEF Submit, FinishScan, FinishReport, vars, pool
  <2> QED
    BY <1>2, <2>1 DEF Settled, Held, In
<1>4. CASE ReportTarget
  <2>1. UNCHANGED <<scan, taken, worker, failed>> /\ Jobs' = Jobs
    BY <1>2, <1>4 DEF ReportTarget
  <2>2. \A t \in Targets, b \in Buckets :
          Recorded(target_results'[t], b) = Recorded(target_results[t], b)
    BY <1>4, ReportKeeps
  <2>3. \A n \in DOMAIN Jobs, b \in Buckets : In(n, b)' <=> In(n, b)
    BY <1>1, <2>1, <2>2 DEF In
  <2>4. "open_ports" \in Buckets
    BY DEF Buckets, PORT_TO_SERVICES
  <2> QED
    BY <2>1, <2>3, <2>4 DEF Settled, Held
<1>5. ASSUME NEW w \in Workers, Take(w)
      PROVE  Settled'
  <2>1. /\ worker'[w].pc \in {"connect", "probe"} /\ worker'[w].job = taken + 1
        /\ worker[w].job = 0 /\ taken' = taken + 1
        /\ \A v \in Workers \ {w} : worker'[v] = worker[v]
        /\ UNCHANGED <<scan, target_results, failed>> /\ Jobs' = Jobs
    BY <1>2, <1>5, TakeType DEF Take, TypeOK
  <2>2. \A n \in DOMAIN Jobs : Held(n) \/ n = taken + 1 => Held(n)'
    BY <1>1, <2>1 DEF Held
  <2>3. \A n \in DOMAIN Jobs : n <= taken + 1 => n <= taken \/ n = taken + 1
    BY <1>1
  <2>4. \A n, b : In(n, b)' <=> In(n, b)
    BY <2>1 DEF In
  <2> QED
    BY <2>1, <2>2, <2>3, <2>4 DEF Settled
<1>6. ASSUME NEW w \in Workers, Step(w), ~Take(w)
      PROVE  Settled'
  <2>1. BusyStep(w) /\ WorkStep(w)
    BY <1>6, BusyStepEffect, WorkStepEffect
  <2>2. /\ UNCHANGED <<scan, taken>> /\ Jobs' = Jobs
        /\ \A v \in Workers \ {w} : worker'[v] = worker[v]
        /\ failed \subseteq failed'
    BY <1>2, <2>1 DEF WorkStep, Pairs, Grabs, Names, Wonders, Raises, Quietly
  <2>3. \A n \in DOMAIN Jobs, b \in Buckets : In(n, b) => In(n, b)'
    BY <2>1, <2>2, WorkKeeps
  <2>4. PICK j : j = worker[w].job
    OBVIOUS
  <2>5. /\ worker'[w].pc \in {"service", "post"} => In(j, "open_ports")'
        /\ Leaves(w) => j \in failed' \/ \E b \in Buckets : In(j, b)'
    BY <2>1, <2>4, WorkSettles
  <2>6. Leaves(w) \/ worker'[w].job = j
    BY <2>1, <2>4 DEF WorkStep, Pairs, Grabs, Names, Wonders, Raises, Goes
  <2>7. "open_ports" \in Buckets
    BY DEF Buckets, PORT_TO_SERVICES
  <2>8. ASSUME NEW n \in DOMAIN Jobs, NEW v \in Workers, worker'[v].job = n,
               worker'[v].pc \in {"service", "post"}
        PROVE  In(n, "open_ports")'
    <3>1. CASE v = w
      <4>1. n = j
        BY <2>6, <2>8, <3>1 DEF Leaves, Idle
      <4> QED
        BY <2>5, <2>8, <3>1, <4>1
    <3>2. CASE v # w
      BY <2>2, <2>3, <2>7, <2>8, <3>2 DEF Settled
    <3> QED
      BY <3>1, <3>2
  <2>9. ASSUME NEW n \in DOMAIN Jobs, n <= taken
        PROVE  Held(n)' \/ n \in failed' \/ \E b \in Buckets : In(n, b)'
    <3>1. CASE n = j
      BY <2>5, <2>6, <3>1 DEF Held
    <3>2. CASE n # j
      <4>1. Held(n) => Held(n)'
        BY <2>2, <2>4, <3>2 DEF Held
      <4>2. Held(n) \/ n \in failed \/ \E b \in Buckets : In(n, b)
        BY <2>9 DEF Settled
      <4> QED
        BY <2>2, <2>3, <4>1, <4>2
    <3> QED
      BY <3>1, <3>2
  <2> QED
    BY <2>2, <2>8, <2>9 DEF Settled
<1> QED
  BY <1>3, <1>4, <1>5, <1>6 DEF Next, Main, Terminated

\* When the scan is over, every port of every target whose job did not raise stands in the
\* printed record: neither the interleaving of the appends nor the zip of
\* _sync_and_deduplicate_ports loses one, unless a banner grab raises.
THEOREM NoPortLostHolds == Spec => []NoPortLost
<1>1. TypeOK /\ Quiet /\ Settled => NoPortLost
  <2> SUFFICES ASSUME TypeOK, Quiet, Settled, phase = "done", "grab" \notin scan.faults,
                      NEW n \in DOMAIN Jobs, n \notin failed
               PROVE  \E b \in Buckets : In(n, b)
    BY DEF NoPortLost, In
  <2>1. DOMAIN Jobs = 1..Len(Jobs) /\ Len(Jobs) \in Nat
    BY JobsType, ScanAssumption DEF TypeOK
  <2>2. taken = Len(Jobs) /\ \A w \in Workers : On(w, "idle")
    BY DEF Quiet
  <2>3. ~Held(n) /\ n <= taken
    BY <2>1, <2>2 DEF Held, TypeOK
  <2> QED
    BY <2>3 DEF Settled
<1> QED
  BY <1>1, InitType, NextType, InitQuiet, NextQuiet, InitLengths, NextLengths,
     InitSettled, NextSettled, PTL DEF Spec

-----------------------------------------------------------------------------
(* Services stand beside their ports *)

\* Banners are not grabbed, or one thread does it and no grab raises.
Calm == ~scan.banner \/ (Inline /\ "grab" \notin scan.faults)

\* The lists of the services are twins of the lists of ports, but for the list of open
\* ports of the target whose banner is being read.
Beside ==
  Calm =>
    /\ \A w \in Workers : On(w, "service") =>
         \A t \in Targets : T(w) = t =>
           Behind(target_results[t].ports["open_ports"],
                  target_results[t].services["open_ports"], P(w))
    /\ \A t \in Targets, b \in Buckets :
         b # "open_ports" \/ Naming(t) = {} =>
           Twin(target_results[t].ports[b], target_results[t].services[b])

LEMMA InitBeside == Init => Beside
<1> SUFFICES ASSUME Init PROVE Beside
  OBVIOUS
<1>1. \A w \in Workers : ~On(w, "service")
  BY DEF Init, Idle, On
<1>2. ASSUME NEW t \in Targets, NEW b \in Buckets
      PROVE  Twin(target_results[t].ports[b], target_results[t].services[b])
  <2>1. target_results[t].ports[b] = <<>> /\ target_results[t].services[b] = <<>>
    BY DEF Init, initialize_target_results
  <2> QED
    BY <2>1 DEF Twin
<1> QED
  BY <1>1, <1>2 DEF Beside

LEMMA WorkBeside ==
  ASSUME TypeOK, Quiet, Beside, NEW w \in Workers, WorkStep(w), Calm
  PROVE  Beside'
<1> DEFINE open == "open_ports"
<1>1. /\ ~On(w, "idle") /\ scan' = scan /\ Jobs' = Jobs
      /\ \A v \in Workers \ {w} : worker'[v] = worker[v]
      /\ Leaves(w) \/ worker'[w].job = worker[w].job
      /\ Leaves(w) => worker'[w].pc = "idle"
      /\ open \in Buckets
  BY JobsFixed DEF WorkStep, Pairs, Grabs, Names, Wonders, Raises, Goes, Leaves, Idle,
     Buckets, PORT_TO_SERVICES
<1>2. PICK u, p : u = T(w) /\ p = P(w)
  OBVIOUS
<1>3. u \in Targets /\ p \in Ports
  BY <1>1, <1>2, BusyWorker
<1>4. ASSUME NEW t \in Targets, NEW b \in Buckets
      PROVE  target_results[t].ports[b] \in Seq(Ports)
             /\ target_results[t].services[b] \in Seq(Services)
  BY DEF TypeOK, Results
<1>5. \A v \in Workers \ {w} : ~On(v, "service")
  <2>1. Workers = 1..MaxThreads /\ MaxThreads \in Nat
    BY ScanAssumption DEF Workers
  <2> SUFFICES ASSUME NEW v \in Workers \ {w}, On(v, "service") PROVE FALSE
    OBVIOUS
  <2>2. Inline
    BY DEF Quiet, On, Calm
  <2>3. ~(w > 1) /\ ~(v > 1)
    BY <1>1, <2>2 DEF Quiet, Inline, On
  <2> QED
    BY <2>1, <2>3
<1>6. \A t : Naming(t) = (IF On(w, "service") /\ t = u THEN {w} ELSE {})
  BY <1>2, <1>5 DEF Naming
<1>7. \A t : Naming(t)' = (IF worker'[w].pc = "service" /\ t = u THEN {w} ELSE {})
  BY <1>1, <1>2, <1>6, NamingStep DEF On
<1>8. \A v \in Workers : On(v, "service")' => v = w
  BY <1>1, <1>5 DEF On
<1>9. \A t \in Targets, b \in Buckets :
        b # open \/ ~On(w, "service") \/ t # u =>
          Twin(target_results[t].ports[b], target_results[t].services[b])
  BY <1>6 DEF Beside
<1>10. ASSUME NEW B, NEW S, Lists(w, B, S)
       PROVE  /\ \A t \in Targets \ {u} : target_results'[t] = target_results[t]
              /\ \A c \in Buckets :
                   /\ target_results'[u].ports[c] =
                        IF c \in B THEN Append(target_results[u].ports[c], p)
                                   ELSE target_results[u].ports[c]
                   /\ IF c \in S
                      THEN \E v \in Services : /\ v.port = p
                             /\ target_results'[u].services[c] =
                                  Append(target_results[u].services[c], v)
                      ELSE target_results'[u].services[c] = target_results[u].services[c]
  BY <1>2, <1>10 DEF Lists
\* The lists are twins after the step, of every target and bucket.
<1> DEFINE Twins == \A t \in Targets, b \in Buckets :
                      Twin(target_results'[t].ports[b], target_results'[t].services[b])
<1>11. Twins /\ worker'[w].pc # "service" => Beside'
  BY <1>8 DEF Beside, On
<1>12. CASE Pairs(w)
  <2>1. PICK b \in Buckets : Lists(w, {b}, {b})
    BY <1>1, <1>12 DEF Pairs
  <2>2. ~On(w, "service") /\ worker'[w].pc # "service"
    BY <1>1, <1>12 DEF Pairs, Goes, On
  <2>3. ASSUME NEW t \in Targets, NEW c \in Buckets
        PROVE  Twin(target_results'[t].ports[c], target_results'[t].services[c])
    <3>1. Twin(target_results[t].ports[c], target_results[t].services[c])
      BY <1>9, <2>2
    <3>2. CASE t = u /\ c = b
      <4>1. PICK v \in Services :
              /\ v.port = p
              /\ target_results'[t].services[c] = Append(target_results[t].services[c], v)
              /\ target_results'[t].ports[c] = Append(target_results[t].ports[c], p)
        <5>1. target_results'[u].ports[b] = Append(target_results[u].ports[b], p)
          BY <1>2, <2>1 DEF Lists
        <5>2. \E v \in Services :
                /\ v.port = p
                /\ target_results'[u].services[b] = Append(target_results[u].services[b], v)
          BY <1>2, <2>1 DEF Lists
        <5> QED
          BY <3>2, <5>1, <5>2
      <4> QED
        BY <1>3, <1>4, <3>1, <4>1, TwinAppend
    <3>3. CASE ~(t = u /\ c = b)
      <4>1. /\ target_results'[t].ports[c] = target_results[t].ports[c]
            /\ target_results'[t].services[c] = target_results[t].services[c]
        BY <1>10, <2>1, <3>3
      <4> QED
        BY <3>1, <4>1
    <3> QED
      BY <3>2, <3>3
  <2> QED
    BY <1>11, <2>2, <2>3
<1>13. CASE Grabs(w)
  <2>1. Lists(w, {open}, {}) /\ ~On(w, "service")
    BY <1>13 DEF Grabs, On
  <2>2. worker'[w].pc = "service" /\ worker'[w].job = worker[w].job
    BY <1>13 DEF Grabs, Goes
  <2>3. T(w)' = u /\ P(w)' = p
    BY <1>1, <1>2, <2>2 DEF T, P
  <2>4. ASSUME NEW t \in Targets, NEW c \in Buckets, c # open \/ t # u
        PROVE  Twin(target_results'[t].ports[c], target_results'[t].services[c])
    <3>1. Twin(target_results[t].ports[c], target_results[t].services[c])
      BY <1>9, <2>1
    <3>2. /\ target_results'[t].ports[c] = target_results[t].ports[c]
          /\ target_results'[t].services[c] = target_results[t].services[c]
      BY <1>10, <2>1, <2>4
    <3> QED
      BY <3>1, <3>2
  <2>5. Behind(target_results'[u].ports[open], target_results'[u].services[open], p)
    <3>1. /\ Twin(target_results[u].ports[open], target_results[u].services[open])
          /\ target_results[u].ports[open] \in Seq(Ports)
      BY <1>1, <1>3, <1>4, <1>9, <2>1
    <3>2. /\ target_results'[u].ports[open] = Append(target_results[u].ports[open], p)
          /\ target_results'[u].services[open] = target_results[u].services[open]
      BY <1>1, <1>2, <2>1 DEF Lists
    <3> QED
      BY <3>1, <3>2 DEF Behind
  <2> QED
    BY <1>7, <1>8, <2>2, <2>3, <2>4, <2>5 DEF Beside
<1>14. CASE Names(w)
  <2>1. Lists(w, {}, {open}) /\ worker'[w].pc # "service"
    BY <1>1, <1>14 DEF Names, Goes
  <2>2. On(w, "service")
    <3>1. worker[w].pc = "grab" => "grab" \notin scan.faults
      BY DEF Quiet, Calm
    <3> QED
      BY <1>14, <3>1 DEF Names, On
  <2>3. ASSUME NEW t \in Targets, NEW c \in Buckets
        PROVE  Twin(target_results'[t].ports[c], target_results'[t].services[c])
    <3>1. CASE t = u /\ c = open
      <4>1. PICK v \in Services :
              /\ v.port = p
              /\ target_results'[t].services[c] = Append(target_results[t].services[c], v)
              /\ target_results'[t].ports[c] = target_results[t].ports[c]
        BY <1>10, <2>1, <3>1
      <4>2. PICK q0 \in Seq(Ports) :
              /\ target_results[t].ports[c] = Append(q0, p)
              /\ Twin(q0, target_results[t].services[c])
        BY <1>2, <1>3, <2>2, <3>1 DEF Beside, Behind
      <4> QED
        BY <1>3, <1>4, <4>1, <4>2, TwinAppend
    <3>2. CASE ~(t = u /\ c = open)
      <4>1. /\ target_results'[t].ports[c] = target_results[t].ports[c]
            /\ target_results'[t].services[c] = target_results[t].services[c]
        BY <1>10, <2>1, <3>2
      <4> QED
        BY <1>9, <3>2, <4>1
    <3> QED
      BY <3>1, <3>2
  <2> QED
    BY <1>11, <2>1, <2>3
<1>15. CASE Wonders(w) \/ Raises(w)
  <2>1. /\ UNCHANGED target_results
        /\ ~On(w, "service") /\ worker'[w].pc # "service"
    BY <1>1, <1>15 DEF Wonders, Raises, Goes, On
  <2> QED
    BY <1>9, <1>11, <2>1
<1> QED
  BY <1>12, <1>13, <1>14, <1>15 DEF WorkStep

LEMMA NextBeside == TypeOK /\ Quiet /\ Beside /\ [Next]_vars => Beside'
<1> SUFFICES ASSUME TypeOK, Quiet, Beside, [Next]_vars PROVE Beside'
  OBVIOUS
<1> SUFFICES ASSUME Calm PROVE Beside'
  <2>1. scan' = scan => (Calm' <=> Calm)
    BY DEF Calm, Inline
  <2> QED
    BY <2>1, ScanStays DEF Beside
<1>1. scan' = scan /\ Jobs' = Jobs
  BY ScanStays, JobsFixed
<1>2. CASE Submit \/ FinishScan \/ FinishReport \/ UNCHANGED vars
  <2>1. UNCHANGED <<target_results, worker>>
    BY <1>2 DEF Submit, FinishScan, FinishReport, vars, pool
  <2>2. \A t : Naming(t)' = Naming(t)
    BY <1>1, <2>1 DEF Naming, On, T
  <2> QED
    BY <1>1, <2>1, <2>2 DEF Beside, On, T, P
<1>3. ASSUME NEW w \in Workers, Take(w)
      PROVE  Beside'
  <2>1. /\ worker'[w].pc # "service" /\ worker[w].pc # "service"
        /\ \A v \in Workers \ {w} : worker'[v] = worker[v]
        /\ UNCHANGED target_results
    BY <1>3, TakeType DEF Take, On
  <2>2. \A t : Naming(t)' = Naming(t)
    BY <1>1, <2>1 DEF Naming, On, T
  <2> QED
    BY <1>1, <2>1, <2>2 DEF Beside, On, T, P
<1>4. CASE ReportTarget
  <2>1. worker' = worker /\ \A w \in Workers : ~On(w, "service")
    BY <1>4 DEF ReportTarget, Quiet, On
  <2>2. \A t : Naming(t) = {}
    BY <2>1 DEF Naming
  <2>3. ASSUME NEW t \in Targets, NEW b \in Buckets
        PROVE  Twin(target_results'[t].ports[b], target_results'[t].services[b])
    <3>1. /\ Twin(target_results[t].ports[b], target_results[t].services[b])
          /\ target_results[t] \in Results
      BY <2>2 DEF Beside, TypeOK
    <3>2. \/ target_results'[t] = target_results[t]
          \/ target_results'[t] = SyncAndDeduplicate(target_results[t])
      BY <1>4 DEF ReportTarget, Write, TypeOK
    <3> QED
      BY <3>1, <3>2, SyncTwin
  <2> QED
    BY <2>1, <2>3 DEF Beside, On
<1> QED
  BY <1>2, <1>3, <1>4, WorkBeside, WorkStepEffect DEF Next, Main, Terminated

\* The service printed beside a port is one found for that port, as long as banners are
\* not grabbed or one thread does it: _record appends to both lists in one section.
THEOREM ServicesAlignHolds == Spec => []ServicesAlign
<1>1. TypeOK /\ Quiet /\ Beside => ServicesAlign
  <2> SUFFICES ASSUME TypeOK, Quiet, Beside, Calm, NEW t \in Targets, Reported(t),
                      NEW b \in Buckets, NEW i \in DOMAIN target_results[t].ports[b]
               PROVE  /\ i \in DOMAIN target_results[t].services[b]
                      /\ target_results[t].services[b][i].port =
                           target_results[t].ports[b][i]
    BY DEF ServicesAlign, ServicesMatchPorts, Calm
  <2>1. phase # "scan" /\ phase # "aborted"
    BY ScanAssumption DEF Quiet, Reported, TypeOK
  <2>2. Naming(t) = {}
    BY <2>1 DEF Quiet, Naming, On
  <2>3. Twin(target_results[t].ports[b], target_results[t].services[b])
    BY <2>2 DEF Beside
  <2>4. /\ target_results[t].ports[b] \in Seq(Ports)
        /\ target_results[t].services[b] \in Seq(Services)
    BY DEF TypeOK, Results
  <2> QED
    BY <2>3, <2>4 DEF Twin
<1> QED
  BY <1>1, InitType, NextType, InitQuiet, NextQuiet, InitBeside, NextBeside, PTL DEF Spec

-----------------------------------------------------------------------------
(* A scan implements VerdictLedger *)

Keys == Targets \X Ports

LEMMA JobsAreKeys ==
  ASSUME scan \in ScanType, NEW n \in DOMAIN Jobs
  PROVE  Jobs[n] \in Keys /\ Jobs[n] = <<Jobs[n][1], Jobs[n][2]>>
<1>1. Jobs[n] = <<Jobs[n][1], Jobs[n][2]>>
  BY DEF Jobs
<1>2. Jobs[n][1] \in Targets /\ Jobs[n][2] \in Ports
  BY JobsType
<1> QED
  BY <1>1, <1>2 DEF Keys

\* The key of the job a thread holds is pending, and stays so until it lets go of the job.
LEMMA PendingWork ==
  ASSUME TypeOK, NEW w \in Workers, WorkStep(w), NEW k, k = Jobs[worker[w].job]
  PROVE  /\ k \in PendingKeys /\ k \in Keys /\ k = <<T(w), P(w)>>
         /\ PendingKeys' = PendingKeys
              \/ (Leaves(w) /\ PendingKeys' = PendingKeys \ {k})
<1> DEFINE Unfinished == {m \in DOMAIN Jobs : m > taken \/ \E v \in Workers : worker[v].job = m}
           j == worker[w].job
<1>1. /\ j \in DOMAIN Jobs /\ Jobs' = Jobs /\ taken' = taken
      /\ \A v \in Workers \ {w} : worker'[v] = worker[v]
      /\ Leaves(w) \/ worker'[w].job = j
      /\ Leaves(w) => worker'[w].job = 0
      /\ scan \in ScanType /\ DOMAIN Jobs = 1..Len(Jobs)
  BY BusyWorker, JobsFixed, JobsType DEF WorkStep, Pairs, Grabs, Names, Wonders, Raises,
     Goes, Leaves, Idle
<1>2. k \in Keys /\ k = <<T(w), P(w)>>
  BY <1>1, JobsAreKeys DEF T, P
<1>3. /\ PendingKeys = {Jobs[n] : n \in Unfinished}
      /\ PendingKeys' = {Jobs[n] : n \in Unfinished'}
  BY <1>1 DEF PendingKeys
<1>4. j \in Unfinished
  BY <1>1
<1>5. ~Leaves(w) => Unfinished' = Unfinished
  BY <1>1
<1>6. Unfinished' \subseteq Unfinished /\ Unfinished \ {j} \subseteq Unfinished'
  BY <1>1
<1> HIDE DEF Unfinished, j
<1>7. ~Leaves(w) => PendingKeys' = PendingKeys
  BY <1>3, <1>5
<1>8. PendingKeys' \subseteq PendingKeys /\ PendingKeys \ {k} \subseteq PendingKeys'
  BY <1>3, <1>6 DEF j
<1> QED
  BY <1>2, <1>3, <1>4, <1>7, <1>8 DEF j

\* Its step gives a verdict to that key or to none.
LEMMA WorkGives ==
  ASSUME TypeOK, NEW w \in Workers, BusyStep(w), NEW k \in Keys, k = <<T(w), P(w)>>
  PROVE  /\ \A i \in Keys \ {k} : VerdictsOf(i)' = VerdictsOf(i)
         /\ \/ VerdictsOf(k)' = VerdictsOf(k)
            \/ \E b \in Buckets : VerdictsOf(k)' = VerdictsOf(k) \cup {b}
<1>1. \A i \in Keys : i = <<i[1], i[2]>> /\ i[1] \in Targets
  BY DEF Keys
<1>2. CASE AddsNothing
  BY <1>1, <1>2 DEF AddsNothing, VerdictsOf
<1>3. CASE \E b \in Buckets : Adds(w, b)
  <2>1. PICK b \in Buckets : Adds(w, b)
    BY <1>3
  <2>2. ASSUME NEW i \in Keys, NEW c \in Buckets
        PROVE  c \in VerdictsOf(i)' <=> c \in VerdictsOf(i) \/ (i = k /\ c = b)
    <3>1. Recorded(target_results'[i[1]], c) = Recorded(target_results[i[1]], c) \cup
            (IF i[1] = T(w) /\ c = b THEN {P(w)} ELSE {})
      BY <1>1, <2>1 DEF Adds
    <3>2. i = k <=> i[1] = T(w) /\ i[2] = P(w)
      BY <1>1
    <3> QED
      BY <3>1, <3>2 DEF VerdictsOf
  <2>3. \A i \in Keys : VerdictsOf(i) \subseteq Buckets /\ VerdictsOf(i)' \subseteq Buckets
    BY DEF VerdictsOf
  <2>4. \A i \in Keys \ {k} : VerdictsOf(i)' = VerdictsOf(i)
    BY <2>2, <2>3
  <2>5. VerdictsOf(k)' = VerdictsOf(k) \cup {b}
    BY <2>2, <2>3
  <2> QED
    BY <2>4, <2>5
<1> QED
  BY <1>2, <1>3 DEF BusyStep, Effect, Buckets, PORT_TO_SERVICES

\* What the ledger calls the phase of a scan.
LedgerPhase ==
  CASE phase = "scan" -> "open"
    [] phase \in {"report", "done"} -> "published"
    [] phase = "aborted" -> "withdrawn"

LEMMA InitLedger == Init /\ TypeOK => ledger!Init
<1> SUFFICES ASSUME Init, TypeOK PROVE ledger!Init
  OBVIOUS
<1>1. scan \in ScanType /\ failed \subseteq DOMAIN Jobs
  BY JobsType, ScanAssumption DEF TypeOK
<1>2. PendingKeys \subseteq Keys /\ ExcusedKeys \subseteq Keys
  BY <1>1, JobsAreKeys DEF PendingKeys, ExcusedKeys, Keys
<1>3. ASSUME NEW k \in Keys PROVE VerdictsOf(k) = {}
  BY <1>3 DEF Keys, VerdictsOf, Recorded, Init, initialize_target_results
<1>4. LedgerPhase = "open"
  BY DEF Init, LedgerPhase
<1> QED
  BY <1>2, <1>3, <1>4 DEF ledger!Init, Keys, LedgerPhase

\* A step that changes none of what the ledger sees.
LEMMA LedgerStutters ==
  ASSUME UNCHANGED <<PendingKeys, ExcusedKeys, LedgerPhase>>,
         \A k \in Keys : VerdictsOf(k)' = VerdictsOf(k)
  PROVE  UNCHANGED ledger!vars
  BY DEF ledger!vars, Keys, LedgerPhase

LEMMA WorkLedger ==
  ASSUME TypeOK, Quiet, Settled, NEW w \in Workers, Step(w), ~Take(w)
  PROVE  [ledger!Next]_(ledger!vars)
<1>1. BusyStep(w) /\ WorkStep(w)
  BY BusyStepEffect, WorkStepEffect
<1>2. PICK k, j : k = Jobs[worker[w].job] /\ j = worker[w].job
  OBVIOUS
<1>3. /\ k \in PendingKeys /\ k \in Keys /\ k = <<T(w), P(w)>>
      /\ PendingKeys' = PendingKeys \/ (Leaves(w) /\ PendingKeys' = PendingKeys \ {k})
  BY <1>1, <1>2, PendingWork
<1>4. /\ \A i \in Keys \ {k} : VerdictsOf(i)' = VerdictsOf(i)
      /\ \/ VerdictsOf(k)' = VerdictsOf(k)
         \/ \E b \in Buckets : VerdictsOf(k)' = VerdictsOf(k) \cup {b}
  BY <1>1, <1>3, WorkGives
<1>5. /\ phase = "scan" /\ LedgerPhase = "open" /\ scan' = scan /\ Jobs' = Jobs
      /\ j \in DOMAIN Jobs /\ k = Jobs[j]
  BY <1>1, <1>2, BusyWorker, JobsFixed, JobsType DEF WorkStep, Quiet, LedgerPhase
<1>6. CASE Raises(w)
  <2>1. /\ failed' = failed \cup {j} /\ phase' \in {"scan", "aborted"}
        /\ UNCHANGED target_results
    BY <1>2, <1>5, <1>6 DEF Raises
  <2>2. ExcusedKeys' = ExcusedKeys \cup {k}
    BY <1>3, <1>5, <2>1 DEF ExcusedKeys, Keys
  <2>3. \A i \in Keys : VerdictsOf(i)' = VerdictsOf(i)
    BY <2>1 DEF VerdictsOf
  <2>4. LedgerPhase' \in {"open", "withdrawn"}
    BY <2>1 DEF LedgerPhase
  <2>5. ledger!Excuse(k)
    BY <1>3, <1>5, <2>2, <2>3, <2>4 DEF ledger!Excuse, ledger!Kept, Keys, LedgerPhase
  <2> QED
    BY <1>3, <2>5 DEF ledger!Next, Keys
<1>7. CASE ~Raises(w)
  <2>1. UNCHANGED <<failed, phase>>
    BY <1>1, <1>7 DEF WorkStep, Pairs, Grabs, Names, Wonders, Quietly
  <2>2. ExcusedKeys' = ExcusedKeys /\ LedgerPhase' = LedgerPhase
    BY <1>5, <2>1 DEF ExcusedKeys, LedgerPhase
  <2>3. CASE \E b \in Buckets : VerdictsOf(k)' = VerdictsOf(k) \cup {b}
    <3>1. ledger!Give(k)
      BY <1>3, <1>4, <1>5, <2>2, <2>3 DEF ledger!Give, Keys, LedgerPhase
    <3> QED
      BY <1>3, <3>1 DEF ledger!Next, Keys
  <2>4. CASE VerdictsOf(k)' = VerdictsOf(k) /\ PendingKeys' = PendingKeys
    BY <1>4, <2>2, <2>4, LedgerStutters
  <2>5. CASE VerdictsOf(k)' = VerdictsOf(k) /\ Leaves(w) /\ PendingKeys' = PendingKeys \ {k}
    <3>1. VerdictsOf(k) # {} \/ k \in ExcusedKeys
      <4>1. CASE "grab" \in scan.faults
        BY <1>3, <4>1 DEF ExcusedKeys, Keys
      <4>2. CASE "grab" \notin scan.faults
        <5>1. j \in failed' \/ \E b \in Buckets : In(j, b)'
          BY <1>1, <1>2, <2>5, <4>2, WorkSettles
        <5>2. (\E b \in Buckets : In(j, b)') => VerdictsOf(k)' # {}
          BY <1>5 DEF In, VerdictsOf
        <5>3. j \in failed => k \in ExcusedKeys
          BY <1>5, <4>2 DEF ExcusedKeys
        <5> QED
          BY <2>1, <2>5, <5>1, <5>2, <5>3
      <4> QED
        BY <4>1, <4>2
    <3>2. \A i \in Keys : VerdictsOf(i)' = VerdictsOf(i)
      BY <1>4, <2>5
    <3>3. ledger!Close(k)
      BY <1>3, <1>5, <2>2, <2>5, <3>1, <3>2 DEF ledger!Close, ledger!Kept, Keys, LedgerPhase
    <3> QED
      BY <1>3, <3>3 DEF ledger!Next, Keys
  <2> QED
    BY <1>3, <1>4, <2>3, <2>4, <2>5
<1> QED
  BY <1>6, <1>7

LEMMA NextLedger ==
  TypeOK /\ Quiet /\ Lengths /\ Settled /\ [Next]_vars => [ledger!Next]_(ledger!vars)
<1> SUFFICES ASSUME TypeOK, Quiet, Lengths, Settled, [Next]_vars
             PROVE  [ledger!Next]_(ledger!vars)
  OBVIOUS
<1>1. scan' = scan /\ Jobs' = Jobs
  BY ScanStays, JobsFixed
<1>2. CASE Submit \/ UNCHANGED vars
  <2>1. UNCHANGED <<target_results, taken, worker, failed, phase>>
    BY <1>2 DEF Submit, vars, pool
  <2> QED
    BY <1>1, <2>1, LedgerStutters DEF PendingKeys, ExcusedKeys, LedgerPhase, VerdictsOf
<1>3. CASE FinishScan
  <2>1. /\ UNCHANGED <<target_results, taken, worker, failed>>
        /\ phase = "scan" /\ phase' = "report" /\ taken = Len(Jobs)
        /\ \A w \in Workers : worker[w].job = 0
    BY <1>3 DEF FinishScan, TypeOK
  <2>2. PendingKeys = {}
    <3>1. DOMAIN Jobs = 1..Len(Jobs) /\ Len(Jobs) \in Nat
      BY JobsType, ScanAssumption DEF TypeOK
    <3> QED
      BY <2>1, <3>1 DEF PendingKeys
  <2>3. PendingKeys' = PendingKeys /\ ExcusedKeys' = ExcusedKeys
    BY <1>1, <2>1 DEF PendingKeys, ExcusedKeys
  <2>4. LedgerPhase = "open" /\ LedgerPhase' = "published"
    BY <2>1 DEF LedgerPhase
  <2>5. \A k \in Keys : VerdictsOf(k)' = VerdictsOf(k)
    BY <2>1 DEF VerdictsOf
  <2>6. ledger!Publish
    BY <2>2, <2>3, <2>4, <2>5 DEF ledger!Publish, ledger!Kept, Keys, LedgerPhase
  <2> QED
    BY <2>6 DEF ledger!Next
<1>4. CASE FinishReport
  <2>1. /\ UNCHANGED <<target_results, taken, worker, failed>>
        /\ phase = "report" /\ phase' = "done"
    BY <1>4 DEF FinishReport
  <2> QED
    BY <1>1, <2>1, LedgerStutters DEF PendingKeys, ExcusedKeys, LedgerPhase, VerdictsOf
<1>5. CASE ReportTarget
  <2>1. UNCHANGED <<taken, worker, failed, phase>>
    BY <1>5 DEF ReportTarget
  <2>2. \A k \in Keys : VerdictsOf(k)' = VerdictsOf(k)
    BY <1>5, ReportKeeps DEF VerdictsOf, Keys
  <2> QED
    BY <1>1, <2>1, <2>2, LedgerStutters DEF PendingKeys, ExcusedKeys, LedgerPhase
<1>6. ASSUME NEW w \in Workers, Take(w)
      PROVE  [ledger!Next]_(ledger!vars)
  <2>1. /\ worker'[w].job = taken + 1 /\ worker[w].job = 0 /\ taken' = taken + 1
        /\ taken \in Nat
        /\ \A v \in Workers \ {w} : worker'[v] = worker[v]
        /\ UNCHANGED <<target_results, failed, phase>>
    BY <1>6, TakeType DEF Take, TypeOK
  <2>2. ASSUME NEW m \in DOMAIN Jobs
        PROVE  (m > taken \/ \E v \in Workers : worker[v].job = m) <=>
               (m > taken + 1 \/ \E v \in Workers : worker'[v].job = m)
    <3>1. m \in Nat \ {0} /\ (m > taken <=> m > taken + 1 \/ m = taken + 1)
      BY <2>1, JobsType, ScanAssumption DEF TypeOK
    <3> QED
      BY <2>1, <3>1
  <2>3. PendingKeys' = PendingKeys
    BY <1>1, <2>1, <2>2 DEF PendingKeys
  <2> QED
    BY <1>1, <2>1, <2>3, LedgerStutters DEF ExcusedKeys, LedgerPhase, VerdictsOf
<1> QED
  BY <1>2, <1>3, <1>4, <1>5, <1>6, WorkLedger DEF Next, Main, Terminated

\* Every step of a scan, with any number of threads, is one the ledger allows: a port gets
\* a verdict only while a job for it runs, no job returns without one unless it raised, and
\* neither a late thread nor the clean-up of the report changes a verdict afterwards.
THEOREM LedgerKeptHolds == Spec => LedgerKept
<1> QED
  BY InitType, NextType, InitQuiet, NextQuiet, InitLengths, NextLengths, InitSettled,
     NextSettled, InitLedger, NextLedger, PTL DEF Spec, LedgerKept, ledger!Spec
=============================================================================
