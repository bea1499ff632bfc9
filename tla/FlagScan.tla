------------------------------ MODULE FlagScan ------------------------------
(***************************************************************************)
(* The scans of LightEngine.py that send one odd packet per port and read  *)
(* the verdict off the answer: Flag_Scan (null, fin, ack, xmas, ...), the  *)
(* two SCTP scans and the IP protocol scan, and the report that prints the *)
(* buckets PORT_SECTIONS names for the kind of scan.                       *)
(*                                                                         *)
(* Their _record holds the lock twice, once for the port and once for the  *)
(* service, and grabs the banner in between.  As in PortScan, an action is *)
(* a worker's local work up to and including one section under the lock;   *)
(* as in HostDiscovery, all jobs are queued from the start.                *)
(***************************************************************************)
EXTENDS TargetResults

CONSTANTS Targets,     \* addresses
          MaxThreads,  \* the largest pool of the scans in Scans
          Scans        \* the scans to model

Workers == 1..MaxThreads

\* TCP_FLAG_SCANS: what an answer says, for every kind of scan; a SYN-ACK is open
\* whatever was sent, and other answers are read like ICMP.
FlagRow(none, rst, tcp, icmp, closed6) ==
  [ no_response |-> none, rst |-> rst, other_tcp |-> tcp, icmp |-> icmp,
    icmpv6_closed |-> closed6, syn_ack |-> "open_ports" ]

Answers ==
  [ null    |-> FlagRow("null_ports", "closed_ports", "null_ports",
                        "filtered_ports", "closed_ports"),
    fin     |-> FlagRow("fin_ports", "closed_ports", "filtered_ports",
                        "filtered_ports", "closed_ports"),
    custom  |-> FlagRow("filtered_ports", "closed_ports", "filtered_ports",
                        "filtered_ports", "closed_ports"),
    ack     |-> FlagRow("filtered_ports", "unfiltered_ports", "filtered_ports",
                        "filtered_ports", "closed_ports"),
    xmas    |-> FlagRow("open_filtered_ports", "closed_ports", "filtered_ports",
                        "filtered_ports", "closed_ports"),
    maimon  |-> FlagRow("open_filtered_ports", "closed_ports", "filtered_ports",
                        "filtered_ports", "closed_ports"),
    fdd     |-> FlagRow("defended_ports", "undefended_ports", "undefended_ports",
                        "defended_ports", "defended_ports"),
    \* window_check: a RST with a window of zero is closed, any other is open.
    window  |-> [ no_response |-> "filtered_ports", rst |-> "closed_ports",
                  rst_window |-> "open_ports", syn_ack |-> "open_ports",
                  other_tcp |-> "filtered_ports", icmp |-> "filtered_ports",
                  icmpv6_closed |-> "closed_ports" ],
    init    |-> [ no_response |-> "filtered_ports", init_ack |-> "open_ports",
                  icmpv6_closed |-> "closed_ports", other |-> "filtered_ports" ],
    cookie  |-> [ no_response |-> "open_filtered_ports", abort |-> "closed_ports",
                  icmpv6_closed |-> "closed_ports", other |-> "open_filtered_ports" ],
    ipproto |-> [ no_response |-> "open_filtered_protocols",
                  icmp_unreachable |-> "closed_protocols",
                  echo_reply |-> "open_protocols", tcp_udp |-> "open_protocols",
                  icmp |-> "filtered_protocols", other |-> "closed_protocols",
                  same_protocol |-> "open_filtered_protocols" ] ]

Kinds == DOMAIN Answers

\* PORT_SECTIONS and _print_ipproto_sections: the buckets a report prints.
PORT_SECTIONS ==
  [ null    |-> {"closed_ports", "filtered_ports", "null_ports"},
    fin     |-> {"closed_ports", "filtered_ports", "fin_ports"},
    custom  |-> {"open_ports", "closed_ports", "filtered_ports", "open_filtered_ports"},
    ack     |-> {"filtered_ports", "unfiltered_ports"},
    xmas    |-> {"closed_ports", "filtered_ports", "open_filtered_ports"},
    maimon  |-> {"closed_ports", "filtered_ports", "open_filtered_ports"},
    fdd     |-> {"defended_ports", "undefended_ports"},
    window  |-> {"open_ports", "closed_ports", "filtered_ports", "open_filtered_ports"},
    init    |-> {"open_ports", "closed_ports", "filtered_ports"},
    cookie  |-> {"closed_ports", "open_filtered_ports"},
    ipproto |-> {"open_protocols", "closed_protocols", "filtered_protocols",
                 "open_filtered_protocols"} ]

\* One scan; "raise" lets a probe raise.
ScanType ==
  [ kind          : Kinds,
    banner        : BOOLEAN,
    max_retries   : Nat \ {0},
    max_threads   : Workers,
    targetss      : Seq(Targets),
    ports_to_scan : Seq(Ports),
    raise         : BOOLEAN ]

ASSUME ScanAssumption ==
  /\ MaxThreads \in Nat \ {0}
  /\ Scans \subseteq ScanType

VARIABLES scan,           \* the scan that runs; never changes
          target_results, \* the shared record of every target
          taken,          \* how many jobs a worker took
          worker,         \* what each thread of the pool is doing
          phase,          \* "scan", "report" or "done"
          reported        \* how many entries of targetss were printed

vars == <<scan, target_results, taken, worker, phase, reported>>

Jobs ==
  LET len == Len(scan.ports_to_scan)
  IN  [ n \in 1 .. Len(scan.targetss) * len |->
          << scan.targetss[((n - 1) \div len) + 1],
             scan.ports_to_scan[((n - 1) % len) + 1] >> ]

Labels == {"idle", "probe", "name", "give_up"}
Idle   == [job |-> 0, pc |-> "idle", attempt |-> 0, bucket |-> "open_ports"]

On(w, label) == worker[w].pc = label
T(w) == Jobs[worker[w].job][1]
P(w) == Jobs[worker[w].job][2]
Return(w) == worker' = [worker EXCEPT ![w] = Idle]

LastAttempt(w) == worker[w].attempt = scan.max_retries - 1

Write(t, r) == target_results' = [target_results EXCEPT ![t] = r]

Init ==
  /\ scan \in Scans
  /\ target_results = [t \in Targets |-> initialize_target_results]
  /\ taken = 0
  /\ worker = [w \in Workers |-> Idle]
  /\ phase = "scan"
  /\ reported = 0

-----------------------------------------------------------------------------
(* _threaded_flag_scan, threaded_sctp_init_scan, threaded_sctp_cookie_scan, *)
(* threaded_ip_scan                                                         *)

Take(w) ==
  /\ phase = "scan"
  /\ w <= scan.max_threads
  /\ On(w, "idle")
  /\ taken < Len(Jobs)
  /\ taken' = taken + 1
  /\ worker' = [worker EXCEPT ![w] = [Idle EXCEPT !.job = taken + 1, !.pc = "probe"]]
  /\ UNCHANGED <<scan, target_results, phase, reported>>

FinishScan ==
  /\ phase = "scan"
  /\ taken = Len(Jobs)
  /\ \A w \in Workers : On(w, "idle")
  /\ phase' = "report"
  /\ UNCHANGED <<scan, target_results, taken, worker, reported>>

-----------------------------------------------------------------------------
(* One attempt *)

\* The answer settles the port: the first section of _record.
RecordPort(w) ==
  /\ On(w, "probe")
  /\ scan.kind # "ipproto"
  /\ \E answer \in DOMAIN Answers[scan.kind] :
       LET bucket == Answers[scan.kind][answer]
       IN  /\ Write(T(w), AppendPort(target_results[T(w)], bucket, P(w)))
           /\ worker' = [worker EXCEPT ![w].pc = "name", ![w].bucket = bucket]
  /\ UNCHANGED <<scan, taken, phase, reported>>

\* A variant for the check of OneVerdict: the grab raises out of _record.
RecordNamedUncaught(w) ==
  /\ On(w, "name")
  /\ scan.banner
  /\ worker' = IF LastAttempt(w)
               THEN [worker EXCEPT ![w].pc = "give_up"]
               ELSE [worker EXCEPT ![w].pc = "probe", ![w].attempt = @ + 1]
  /\ UNCHANGED <<scan, target_results, taken, phase, reported>>

\* The banner, if asked for, is grabbed for any verdict; exceptions of the grab
\* are caught.  Then the second section of _record.
RecordNamed(w) ==
  /\ On(w, "name")
  /\ scan.banner
  /\ \E x \in Texts :
       Write(T(w), AppendService(AppendBanner(target_results[T(w)], x, P(w)),
                                 worker[w].bucket, Banner(P(w))))
  /\ Return(w)
  /\ UNCHANGED <<scan, taken, phase, reported>>

\* A variant for the check of LedgerKept and ServicesAccountedFor: the service
\* joins those of the open ports whatever the verdict.
RecordServiceOfOpen(w) ==
  /\ On(w, "name")
  /\ Write(T(w), AppendService(target_results[T(w)], "open_ports", Table(P(w))))
  /\ Return(w)
  /\ UNCHANGED <<scan, taken, phase, reported>>

RecordService(w) ==
  /\ On(w, "name")
  /\ Write(T(w), AppendService(target_results[T(w)], worker[w].bucket, Table(P(w))))
  /\ Return(w)
  /\ UNCHANGED <<scan, taken, phase, reported>>

\* _record_protocol: number and name in one section.
RecordBoth(w, bucket) ==
  Write(T(w), AppendService(AppendPort(target_results[T(w)], bucket, P(w)),
                            bucket, Table(P(w))))

RecordProtocol(w) ==
  /\ On(w, "probe")
  /\ scan.kind = "ipproto"
  /\ \E answer \in DOMAIN Answers["ipproto"] : RecordBoth(w, Answers["ipproto"][answer])
  /\ Return(w)
  /\ UNCHANGED <<scan, taken, phase, reported>>

\* Variants of ProbeRaises, for the check of TypeOK and of Termination: the last
\* attempt is tried again, counted on or counted from the start.
ProbeRaisesOnce(w) ==
  /\ scan.raise
  /\ On(w, "probe")
  /\ worker[w].attempt < scan.max_retries
  /\ worker' = [worker EXCEPT ![w].attempt = @ + 1]
  /\ UNCHANGED <<scan, target_results, taken, phase, reported>>

ProbeRaisesForever(w) ==
  /\ scan.raise
  /\ On(w, "probe")
  /\ worker' = [worker EXCEPT ![w].attempt = (@ + 1) % scan.max_retries]
  /\ UNCHANGED <<scan, target_results, taken, phase, reported>>

ProbeRaises(w) ==
  /\ scan.raise
  /\ On(w, "probe")
  /\ worker' = IF LastAttempt(w)
               THEN [worker EXCEPT ![w].pc = "give_up"]
               ELSE [worker EXCEPT ![w].attempt = @ + 1]
  /\ UNCHANGED <<scan, target_results, taken, phase, reported>>

\* Where a port goes whose last attempt raised, unless it is known to be open.
\* The SCTP cookie scan appends the service to the list of ports.
GiveUp(w) ==
  LET r == target_results[T(w)]
  IN  /\ On(w, "give_up")
      /\ CASE scan.kind = "ipproto" -> RecordBoth(w, "filtered_protocols")
           [] scan.kind # "ipproto" /\ P(w) \in Recorded(r, "open_ports") ->
                UNCHANGED target_results
           [] scan.kind = "cookie" /\ P(w) \notin Recorded(r, "open_ports") ->
                Write(T(w), AppendPort(AppendPort(r, "open_filtered_ports", P(w)),
                                       "open_filtered_ports", Table(P(w))))
           [] OTHER -> RecordBoth(w, "filtered_ports")
      /\ Return(w)
      /\ UNCHANGED <<scan, taken, phase, reported>>

-----------------------------------------------------------------------------
(* Scan_details *)

ReportTarget ==
  /\ phase = "report"
  /\ reported < Len(scan.targetss)
  /\ LET t == scan.targetss[reported + 1]
     IN  Write(t, SyncAndDeduplicate(target_results[t]))
  /\ reported' = reported + 1
  /\ UNCHANGED <<scan, taken, worker, phase>>

FinishReport ==
  /\ phase = "report"
  /\ reported = Len(scan.targetss)
  /\ phase' = "done"
  /\ UNCHANGED <<scan, target_results, taken, worker, reported>>

Terminated == phase = "done" /\ UNCHANGED vars

Step(w) ==
  \/ Take(w) \/ RecordPort(w) \/ RecordNamed(w) \/ RecordService(w)
  \/ RecordProtocol(w) \/ ProbeRaises(w) \/ GiveUp(w)
Main == FinishScan \/ ReportTarget \/ FinishReport

Next == Main \/ (\E w \in Workers : Step(w)) \/ Terminated

Spec == Init /\ [][Next]_vars

\* sr1 and Banner.grab carry a timeout, and the lock is held for appends only.
FairSpec == Spec /\ WF_vars(Main) /\ \A w \in Workers : WF_vars(Step(w))
-----------------------------------------------------------------------------
(* Properties *)

\* Every variable has its type; in particular the lists of ports hold ports.
TypeOK ==
  /\ scan \in Scans
  /\ target_results \in [Targets -> Results]
  /\ taken \in 0..Len(Jobs)
  /\ worker \in [Workers -> [ job : 0..taken, pc : Labels, bucket : Buckets,
                              attempt : 0 .. scan.max_retries - 1 ]]
  /\ \A w \in Workers : On(w, "idle") <=> worker[w].job = 0
  /\ phase \in {"scan", "report", "done"}
  /\ reported \in 0..Len(scan.targetss)

Sole(n) == \A m \in DOMAIN Jobs : Jobs[m] = Jobs[n] => m = n
Apart   == \A n \in DOMAIN Jobs : Sole(n)

\* A port scanned once stands in at most one bucket, however many attempts raise:
\* a retry follows only an attempt that recorded nothing.
OneVerdict ==
  \A n \in DOMAIN Jobs : Sole(n) =>
    \A b, c \in Buckets :
      LET r == target_results[Jobs[n][1]]
      IN  Jobs[n][2] \in Recorded(r, b) \cap Recorded(r, c) => b = c

\* Once all calls returned, each list of services names one service for each port
\* of its bucket, though two workers of one target may have appended them in
\* different orders; with one thread, or for protocols, in the same order.
ServicesAccountedFor ==
  phase # "scan" /\ Apart =>
    \A t \in Targets, b \in Buckets :
      LET r == target_results[t]
          named == {r.services[b][i].port : i \in DOMAIN r.services[b]}
      IN  /\ Len(r.ports[b]) = Len(r.services[b])
          /\ named = Recorded(r, b)
          /\ scan.max_threads = 1 \/ scan.kind = "ipproto" =>
               \A i \in DOMAIN r.ports[b] : r.services[b][i].port = r.ports[b][i]

\* The scan comes to its end, whatever the peers answer and whatever raises.
Termination == <>(phase = "done")
-----------------------------------------------------------------------------
(* These scans implement VerdictLedger too, without an excuse: whatever raises, *)
(* the last attempt settles the port.                                           *)

PendingKeys ==
  {Jobs[n] : n \in {m \in DOMAIN Jobs :
                      m > taken \/ \E w \in Workers : worker[w].job = m}}
VerdictsOf(k) == {b \in Buckets : k[2] \in Recorded(target_results[k[1]], b)}

ledger == INSTANCE VerdictLedger WITH
  Keys     <- Targets \X Ports,
  Verdicts <- Buckets,
  pending  <- PendingKeys,
  verdicts <- [k \in Targets \X Ports |-> VerdictsOf(k)],
  excused  <- {},
  phase    <- IF phase = "scan" THEN "open" ELSE "published"

\* Every step of a scan is one the ledger allows: a port gets a verdict only while
\* a job for it runs, every job returns with one, and the clean-up of the report,
\* which cuts lists of unequal length, changes none.
LedgerKept == ledger!Spec
=============================================================================
