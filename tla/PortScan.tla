------------------------------ MODULE PortScan ------------------------------
(***************************************************************************)
(* The TCP connect, SYN and UDP scans of Lightscan.py: threaded_*_scan     *)
(* submits one call per (target, port) to a ThreadPoolExecutor, the        *)
(* workers probe and record what they learn in target_results, and         *)
(* Scan_details normalises and prints the record of every target.          *)
(*                                                                         *)
(* An action is a worker's local work up to and including one access to    *)
(* shared state: a section under self.lock, or one unlocked list append.   *)
(* What a probe answers, which exception is raised and what a banner says  *)
(* is the environment's choice.                                            *)
(***************************************************************************)
EXTENDS TargetResults

CONSTANTS Targets,     \* addresses
          Loopback,    \* those for which is_loopback holds
          MaxThreads,  \* the largest pool of the scans in Scans
          Scans        \* the scans to model

Workers == 1..MaxThreads

(***************************************************************************)
(* One scan: its command line, what host discovery found, and which calls  *)
(* may raise.  Host discovery may list a target twice and --port may name  *)
(* a port twice.  --max-retries 0, which scans nothing, is left out.       *)
(***************************************************************************)
ScanType ==
  [ mode          : {"tcp", "syn", "udp"},
    no_root       : BOOLEAN,
    banner        : BOOLEAN,
    max_retries   : Nat \ {0},
    max_threads   : Workers,
    targets       : Seq(Targets),   \* the targets given
    targetss      : Seq(Targets),   \* those found up
    ports_to_scan : Seq(Ports),
    faults        : SUBSET {"socket", "probe", "grab", "post"} ]

ASSUME ScanAssumption ==
  /\ MaxThreads \in Nat \ {0}
  /\ Loopback \subseteq Targets
  /\ Scans \subseteq ScanType

VARIABLES scan,           \* the scan that runs; never changes
          target_results, \* the shared record of every target
          submitted,      \* how many jobs were handed to the executor
          taken,          \* how many of those a worker took from its queue
          worker,         \* what each thread of the pool is doing
          failed,         \* jobs whose future holds an exception
          phase,          \* "scan", "report", "done" or "aborted"
          reported        \* how many entries of targetss were printed

pool == <<scan, submitted, taken, failed, phase, reported>>
vars == <<pool, target_results, worker>>

\* With one thread no pool is made: the calls run one after the other.
Inline == scan.max_threads = 1

\* for target in ...: for port in ...: (inline over targets, pooled over targetss)
ScannedTargets == IF Inline THEN scan.targets ELSE scan.targetss
Jobs ==
  LET len == Len(scan.ports_to_scan)
  IN  [ n \in 1 .. Len(ScannedTargets) * len |->
          << ScannedTargets[((n - 1) \div len) + 1],
             scan.ports_to_scan[((n - 1) % len) + 1] >> ]

\* Targets that loopback_scan_handler connects to instead of probing.
Connects(t) == scan.no_root \/ (scan.mode # "udp" /\ t \in Loopback)

Labels == {"idle", "connect", "probe", "grab", "service", "post", "check", "give_up"}
Idle   == [job |-> 0, pc |-> "idle", attempt |-> 0]

On(w, label) == worker[w].pc = label
T(w) == Jobs[worker[w].job][1]
P(w) == Jobs[worker[w].job][2]

\* Variants named after a mistake are not part of the scan: each is what a
\* plausible bug would make of the definition that follows it.
LastAttemptMissedByOne(w) == worker[w].attempt = scan.max_retries
LastAttempt(w) == worker[w].attempt = scan.max_retries - 1
Retry(w) == worker' = [worker EXCEPT ![w].pc = "probe", ![w].attempt = @ + 1]
Goto(w, label) == worker' = [worker EXCEPT ![w].pc = label]
Return(w) == worker' = [worker EXCEPT ![w] = Idle]

Write(t, r) == target_results' = [target_results EXCEPT ![t] = r]

\* _record: port and service appended in one section under the lock.
Record(w, bucket) ==
  Write(T(w), AppendService(AppendPort(target_results[T(w)], bucket, P(w)),
                            bucket, Table(P(w))))

Init ==
  /\ scan \in Scans
  /\ target_results = [t \in Targets |-> initialize_target_results]
  /\ submitted = IF Inline THEN Len(Jobs) ELSE 0
  /\ taken = 0
  /\ worker = [w \in Workers |-> Idle]
  /\ failed = {}
  /\ phase = "scan"
  /\ reported = 0

-----------------------------------------------------------------------------
(* threaded_tcp_3_ways_handshake, threaded_tcp_syn_scan, threaded_udp_scan *)

Submit ==
  /\ phase = "scan"
  /\ submitted < Len(Jobs)
  /\ submitted' = submitted + 1
  /\ UNCHANGED <<scan, target_results, taken, worker, failed, phase, reported>>

\* A free thread takes the oldest job of the executor's queue.
Take(w) ==
  /\ phase = "scan"
  /\ w <= scan.max_threads
  /\ On(w, "idle")
  /\ taken < submitted
  /\ taken' = taken + 1
  /\ worker' = [worker EXCEPT ![w] =
       [ job |-> taken + 1,
         pc |-> IF Connects(Jobs[taken + 1][1]) THEN "connect" ELSE "probe",
         attempt |-> 0 ]]
  /\ UNCHANGED <<scan, target_results, submitted, failed, phase, reported>>

FinishScanWithoutWaiting ==
  /\ phase = "scan"
  /\ taken = Len(Jobs)
  /\ phase' = "report"
  /\ UNCHANGED <<scan, target_results, submitted, taken, worker, failed, reported>>

\* as_completed and the end of the with block wait for every future.
FinishScan ==
  /\ phase = "scan"
  /\ taken = Len(Jobs)
  /\ \A w \in Workers : On(w, "idle")
  /\ phase' = "report"
  /\ UNCHANGED <<scan, target_results, submitted, taken, worker, failed, reported>>

-----------------------------------------------------------------------------
(* loopback_scan_handler *)

ConnectOpen(w) ==
  /\ On(w, "connect")
  /\ Record(w, "open_ports")
  /\ IF scan.banner THEN Goto(w, "grab") ELSE Return(w)
  /\ UNCHANGED pool

ConnectClosed(w) ==
  /\ On(w, "connect")
  /\ Record(w, "closed_ports")
  /\ Return(w)
  /\ UNCHANGED pool

\* socket.socket raises: nothing catches it in the job.  A future swallows it;
\* without a pool it ends the whole scan.
ConnectRaises(w) ==
  /\ "socket" \in scan.faults
  /\ On(w, "connect")
  /\ failed' = failed \cup {worker[w].job}
  /\ phase' = IF Inline THEN "aborted" ELSE phase
  /\ Return(w)
  /\ UNCHANGED <<scan, target_results, submitted, taken, reported>>

-----------------------------------------------------------------------------
(* _tcp_scan and udp_scan, one attempt *)

\* No answer: retried, and settled on the last attempt.
ProbeSilent(w) ==
  /\ On(w, "probe")
  /\ IF LastAttempt(w)
     THEN /\ Record(w, IF scan.mode = "udp" THEN "open_filtered_ports"
                                           ELSE "filtered_ports")
          /\ Return(w)
     ELSE Retry(w) /\ UNCHANGED target_results
  /\ UNCHANGED pool

\* RST, or ICMP port unreachable.
ProbeClosed(w) ==
  /\ On(w, "probe")
  /\ Record(w, "closed_ports")
  /\ Return(w)
  /\ UNCHANGED pool

\* Any other answer that does not show the port open.
ProbeFiltered(w) ==
  /\ On(w, "probe")
  /\ Record(w, "filtered_ports")
  /\ Return(w)
  /\ UNCHANGED pool

\* What follows an open port: _tcp_scan still answers the peer, the others return.
AfterOpen(w) ==
  IF scan.mode = "udp" \/ Connects(T(w)) THEN Return(w) ELSE Goto(w, "post")

\* SYN-ACK, or a UDP answer.
ProbeOpen(w) ==
  /\ On(w, "probe")
  /\ IF scan.banner
     THEN Goto(w, "grab") /\ UNCHANGED target_results
     ELSE Record(w, "open_ports") /\ AfterOpen(w)
  /\ UNCHANGED pool

\* The except clause: retry, or settle on the last attempt.
Except(w) == IF LastAttempt(w) THEN Goto(w, "check") ELSE Retry(w)

ProbeRaises(w) ==
  /\ "probe" \in scan.faults
  /\ On(w, "probe")
  /\ Except(w)
  /\ UNCHANGED <<target_results, pool>>

\* _send_ack_handshake (tcp only) and _send_rst, inside the same try.
Post(w) ==
  /\ On(w, "post")
  /\ Return(w)
  /\ UNCHANGED <<target_results, pool>>

PostRaises(w) ==
  /\ "post" \in scan.faults
  /\ On(w, "post")
  /\ Except(w)
  /\ UNCHANGED <<target_results, pool>>

CheckOpenThenTryAgain(w) ==
  /\ On(w, "check")
  /\ IF P(w) \in Recorded(target_results[T(w)], "open_ports")
     THEN Return(w)
     ELSE Goto(w, "probe")
  /\ UNCHANGED <<target_results, pool>>

CheckOpenForgotten(w) ==
  /\ On(w, "check")
  /\ Goto(w, "give_up")
  /\ UNCHANGED <<target_results, pool>>

\* The last attempt raised: open_ports is read without the lock ...
CheckOpen(w) ==
  /\ On(w, "check")
  /\ IF P(w) \in Recorded(target_results[T(w)], "open_ports")
     THEN Return(w)
     ELSE Goto(w, "give_up")
  /\ UNCHANGED <<target_results, pool>>

\* ... and written under it afterwards.
GiveUp(w) ==
  /\ On(w, "give_up")
  /\ Record(w, "filtered_ports")
  /\ Return(w)
  /\ UNCHANGED pool

-----------------------------------------------------------------------------
(* _grab_and_record_banner *)

\* Banner.grab returned; the port is appended without the lock.
Grab(w) ==
  /\ On(w, "grab")
  /\ Write(T(w), AppendPort(target_results[T(w)], "open_ports", P(w)))
  /\ Goto(w, "service")
  /\ UNCHANGED pool

\* Banner.grab raised: only the service is appended.
GrabRaises(w) ==
  /\ "grab" \in scan.faults
  /\ On(w, "grab")
  /\ Write(T(w), AppendService(target_results[T(w)], "open_ports", Table(P(w))))
  /\ AfterOpen(w)
  /\ UNCHANGED pool

\* A banner with a recognised service.
RecordBanner(w) ==
  /\ On(w, "service")
  /\ \E x \in Texts :
       Write(T(w), AppendBanner(AppendService(target_results[T(w)], "open_ports",
                                              Banner(P(w))), x, P(w)))
  /\ AfterOpen(w)
  /\ UNCHANGED pool

RecordNoBannerWithoutService(w) ==
  /\ On(w, "service")
  /\ AfterOpen(w)
  /\ UNCHANGED <<target_results, pool>>

\* No banner, or none that names a service.
RecordNoBanner(w) ==
  /\ On(w, "service")
  /\ Write(T(w), AppendService(target_results[T(w)], "open_ports", Table(P(w))))
  /\ AfterOpen(w)
  /\ UNCHANGED pool

-----------------------------------------------------------------------------
(* Scan_details *)

ReportTarget ==
  /\ phase = "report"
  /\ reported < Len(scan.targetss)
  /\ LET t == scan.targetss[reported + 1]
     IN  Write(t, SyncAndDeduplicate(target_results[t]))
  /\ reported' = reported + 1
  /\ UNCHANGED <<scan, submitted, taken, worker, failed, phase>>

FinishReport ==
  /\ phase = "report"
  /\ reported = Len(scan.targetss)
  /\ phase' = "done"
  /\ UNCHANGED <<scan, target_results, submitted, taken, worker, failed, reported>>

Terminated ==
  /\ phase \in {"done", "aborted"}
  /\ UNCHANGED vars

-----------------------------------------------------------------------------

Step(w) ==
  \/ Take(w)
  \/ ConnectOpen(w) \/ ConnectClosed(w) \/ ConnectRaises(w)
  \/ ProbeSilent(w) \/ ProbeClosed(w) \/ ProbeFiltered(w) \/ ProbeOpen(w)
  \/ ProbeRaises(w) \/ Post(w) \/ PostRaises(w) \/ CheckOpen(w) \/ GiveUp(w)
  \/ Grab(w) \/ GrabRaises(w) \/ RecordBanner(w) \/ RecordNoBanner(w)

Main == Submit \/ FinishScan \/ ReportTarget \/ FinishReport

Next == Main \/ (\E w \in Workers : Step(w)) \/ Terminated

Spec == Init /\ [][Next]_vars

\* The operating system schedules every thread, and a thread never waits
\* forever: sr1, connect_ex and Banner.grab carry a timeout, self.lock is held
\* for list appends only.
Fairness == WF_vars(Main) /\ \A w \in Workers : WF_vars(Step(w))
FairSpec == Spec /\ Fairness
-----------------------------------------------------------------------------
(* Properties *)

WorkerStates == [job : 0..Len(Jobs), pc : Labels, attempt : Nat]

\* Every variable has its type; in particular no port is probed more than
\* max_retries times, and a thread holds a job exactly while it is busy.
TypeOK ==
  /\ scan \in Scans
  /\ target_results \in [Targets -> Results]
  /\ submitted \in 0..Len(Jobs)
  /\ taken \in 0..submitted
  /\ worker \in [Workers -> WorkerStates]
  /\ \A w \in Workers :
       /\ On(w, "idle") <=> worker[w].job = 0
       /\ worker[w].attempt < scan.max_retries
  /\ failed \subseteq 1..Len(Jobs)
  /\ phase \in {"scan", "report", "done", "aborted"}
  /\ reported \in 0..Len(scan.targetss)

\* Job n is the only one that scans its port of its target.
Sole(n) == \A m \in DOMAIN Jobs : Jobs[m] = Jobs[n] => m = n

\* A port scanned once stands in at most one bucket, whatever it answers, is
\* retried or raises: a retry follows only an attempt that recorded nothing, and
\* the except clause looks for the port in open_ports before it calls it
\* filtered.  Left out: an open port whose RST could not be sent and that has
\* attempts left is probed again, and then the second answer counts as well.
OneVerdict ==
  ("post" \notin scan.faults \/ scan.max_retries = 1) =>
  \A n \in DOMAIN Jobs : Sole(n) =>
    \A b, c \in Buckets :
      LET r == target_results[Jobs[n][1]]
      IN  Jobs[n][2] \in Recorded(r, b) \cap Recorded(r, c) => b = c

\* When the scan is over, every port of every target whose job did not raise
\* stands in the printed record: neither the interleaving of the appends nor the
\* zip of _sync_and_deduplicate_ports loses one.  Left out: a banner grab that
\* raises, after which _grab_and_record_banner appends a service and no port.
NoPortLost ==
  phase = "done" /\ "grab" \notin scan.faults =>
    \A n \in DOMAIN Jobs \ failed :
      \E b \in Buckets : Jobs[n][2] \in Recorded(target_results[Jobs[n][1]], b)

Reported(t) == \E k \in 1..reported : scan.targetss[k] = t

\* Once the record of a target is printed it never changes again: no worker is
\* still writing, and printing a target twice normalises it to the same record.
ReportedIsFinal ==
  [][\A t \in Targets :
       Reported(t) => target_results'[t] = target_results[t]]_vars

\* A printed record names each port once per bucket and pairs the ports it
\* names with as many services, although jobs, retries and loopback_scan_handler
\* append a port several times.
ReportedOnce ==
  \A t \in Targets : Reported(t) =>
    \A b \in SyncedBuckets :
      LET r == target_results[t]
      IN  /\ Cardinality(Recorded(r, b)) = Len(r.ports[b])
          /\ Len(r.services[b]) = Len(r.ports[b])

\* The service printed beside a port is one found for that port.
ServicesMatchPorts ==
  \A t \in Targets : Reported(t) =>
    \A b \in Buckets :
      LET r == target_results[t]
      IN  \A i \in DOMAIN r.ports[b] :
            /\ i \in DOMAIN r.services[b]
            /\ r.services[b][i].port = r.ports[b][i]

\* The service printed beside a port is one found for that port, as long as
\* banners are not grabbed or one thread does it: _record appends to both lists
\* in one section, _grab_and_record_banner in two.
ServicesAlign ==
  ~scan.banner \/ (Inline /\ "grab" \notin scan.faults) => ServicesMatchPorts

\* The scan comes to its end, whatever the peers answer and whatever raises.
Termination == <>(phase \in {"done", "aborted"})
-----------------------------------------------------------------------------
(* A scan implements VerdictLedger: a key is pending until the last job for it *)
(* has returned to the executor, its verdicts are the buckets its port stands  *)
(* in, and it is excused when a job for it raised, or when a banner grab may   *)
(* raise, after which _grab_and_record_banner appends no port.                 *)

PendingKeys ==
  {Jobs[n] : n \in {m \in DOMAIN Jobs :
                      m > taken \/ \E w \in Workers : worker[w].job = m}}
VerdictsOf(k) == {b \in Buckets : k[2] \in Recorded(target_results[k[1]], b)}
ExcusedKeys ==
  IF "grab" \in scan.faults THEN Targets \X Ports ELSE {Jobs[n] : n \in failed}

ledger == INSTANCE VerdictLedger WITH
  Keys     <- Targets \X Ports,
  Verdicts <- Buckets,
  pending  <- PendingKeys,
  verdicts <- [k \in Targets \X Ports |-> VerdictsOf(k)],
  excused  <- ExcusedKeys,
  phase    <- CASE phase = "scan" -> "open"
                [] phase \in {"report", "done"} -> "published"
                [] phase = "aborted" -> "withdrawn"

\* Every step of a scan is one the ledger allows: a port gets a verdict only while
\* a job for it runs, no job returns without one unless it raised, and from the
\* moment the last job returned neither a late worker nor the clean-up of the
\* report changes any verdict.
LedgerKept == ledger!Spec
=============================================================================
