------------------------------- MODULE IdleScan -------------------------------
(***************************************************************************)
(* Idle_Scan and threaded_idle_scan of LightEngine.py.  A port is judged   *)
(* without a packet of one's own: the IP identifier of a zombie is read,   *)
(* a SYN is sent in the zombie's name, and the identifier is read again.   *)
(* Each packet the zombie sends moves it on by one, so the difference says *)
(* whether the target's SYN-ACK made the zombie send a RST.                *)
(*                                                                         *)
(* The zombies and the targets are the environment: ip_id is the counter   *)
(* of a zombie, which all workers given that zombie read and move.         *)
(***************************************************************************)
EXTENDS TargetResults, SequencesExt

CONSTANTS Targets,     \* addresses
          Zombies,     \* addresses
          IdSpace,     \* how many identifiers there are: 65536
          MaxThreads,  \* the largest pool of the scans in Scans
          Scans        \* the scans to model

Workers == 1..MaxThreads

\* What may go wrong: a probe or a SYN is lost, a call of scapy raises, a SYN-ACK
\* reaches the zombie after the second probe.
Faults == {"lost", "raise", "late"}

\* One scan; "open" holds the ports that answer a SYN with a SYN-ACK, "chatter" is
\* how many packets of its own each zombie may send meanwhile.
ScanType ==
  [ banner        : BOOLEAN,
    max_retries   : Nat \ {0},
    max_threads   : Workers,
    version       : {4, 6},
    targetss      : Seq(Targets),
    ports_to_scan : Seq(Ports),
    zombie_ips    : Seq(Zombies),
    open          : SUBSET (Targets \X Ports),
    chatter       : Nat,
    faults        : SUBSET Faults ]

ASSUME ScanAssumption ==
  /\ MaxThreads \in Nat \ {0}
  /\ IdSpace \in Nat /\ IdSpace > 2
  /\ Scans \subseteq ScanType

VARIABLES scan,           \* the scan that runs; never changes
          target_results, \* the shared record of every target
          good_zombies,   \* the zombies that answered, in order
          tested,         \* how many entries of zombie_ips were tried
          jobs,           \* the calls submitted to the pool
          taken,          \* how many of them a worker took
          worker,         \* what each thread of the pool is doing
          ip_id,          \* the identifier of a zombie's last packet
          due,            \* SYN-ACKs that have not reached their zombie
          chatter,        \* packets a zombie may still send of its own
          phase,          \* "test", "scan", "report", "done" or "cut_short"
          reported        \* how many entries of targetss were printed

environment == <<ip_id, due, chatter>>
progress    == <<good_zombies, tested, jobs, taken, phase, reported>>
vars == <<scan, target_results, worker, environment, progress>>

-----------------------------------------------------------------------------
(* threaded_idle_scan: which zombie scans which ports *)

\* Variants named after a mistake are not part of the scan: each is what a plausible
\* bug would make of the definition that follows it.
SliceEven(i, zombies, ports) ==
  LET per == Len(ports) \div Len(zombies)
  IN  SubSeq(ports, (i - 1) * per + 1, i * per)

\* The ports of the i-th zombie; the last one takes what the division leaves over.
Slice(i, zombies, ports) ==
  LET per == Len(ports) \div Len(zombies)
  IN  SubSeq(ports, (i - 1) * per + 1, IF i < Len(zombies) THEN i * per ELSE Len(ports))

\* zombie_ports, a dict: a zombie named twice stays where it was first put and keeps
\* the slice it was given last.
Places(good) == {i \in DOMAIN good : \A j \in 1..(i - 1) : good[j] # good[i]}
LastPlace(good, z) ==
  CHOOSE i \in DOMAIN good : good[i] = z /\ \A j \in DOMAIN good : good[j] = z => j <= i

zombie_ports(good) ==
  [ n \in 1..Cardinality(Places(good)) |->
      LET z == good[InOrder(Places(good))[n]]
      IN  [zombie |-> z, ports |-> Slice(LastPlace(good, z), good, scan.ports_to_scan)] ]

\* The calls of Idle_Scan, in the order they are submitted.
Submitted(good) ==
  LET split == zombie_ports(good)
      calls(t, s) == [ n \in DOMAIN s.ports |->
                         [target |-> t, zombie |-> s.zombie, port |-> s.ports[n]] ]
  IN  FlattenSeq([ i \in DOMAIN scan.targetss |->
        FlattenSeq([ n \in DOMAIN split |-> calls(scan.targetss[i], split[n]) ]) ])

-----------------------------------------------------------------------------
Idle   == [job |-> 0, pc |-> "idle", attempt |-> 0, id1 |-> 0, bucket |-> "filtered_ports"]

On(w, label) == worker[w].pc = label
Job(w)       == jobs[worker[w].job]
T(w)         == Job(w).target
P(w)         == Job(w).port
Z(w)         == Job(w).zombie
Return(w)    == worker' = [worker EXCEPT ![w] = Idle]
May(fault)   == fault \in scan.faults
LastAttempt(w) == worker[w].attempt = scan.max_retries - 1
Settle(w, bucket) == worker' = [worker EXCEPT ![w].pc = "record", ![w].bucket = bucket]
Write(t, r)  == target_results' = [target_results EXCEPT ![t] = r]

\* The zombie sends a packet.
Sends(z) == ip_id' = [ip_id EXCEPT ![z] = (@ + 1) % IdSpace]

Init ==
  /\ scan \in Scans
  /\ target_results = [t \in Targets |-> initialize_target_results]
  /\ good_zombies = <<>>
  /\ tested = 0
  /\ jobs = <<>>
  /\ taken = 0
  /\ worker = [w \in Workers |-> Idle]
  /\ ip_id = [z \in Zombies |-> IdSpace - 3]
  /\ due = {}
  /\ chatter = [z \in Zombies |-> scan.chatter]
  /\ phase = "test"
  /\ reported = 0

-----------------------------------------------------------------------------
(* Which zombies answer *)

TestZombie ==
  /\ phase = "test"
  /\ tested < Len(scan.zombie_ips)
  /\ tested' = tested + 1
  /\ LET z == scan.zombie_ips[tested + 1]
     IN  \/ good_zombies' = Append(good_zombies, z) /\ Sends(z)
         \/ May("lost") /\ UNCHANGED <<good_zombies, ip_id>>
  /\ UNCHANGED <<scan, target_results, worker, due, chatter, jobs, taken, phase, reported>>

\* Nothing catches an exception here: the program ends without a report.
TestRaises ==
  /\ May("raise")
  /\ phase = "test"
  /\ tested < Len(scan.zombie_ips)
  /\ phase' = "cut_short"
  /\ UNCHANGED <<scan, target_results, worker, environment, good_zombies, tested, jobs, taken, reported>>

\* With no zombie the function returns, and the report follows.
StartScan ==
  /\ phase = "test"
  /\ tested = Len(scan.zombie_ips)
  /\ IF good_zombies = <<>>
     THEN phase' = "report" /\ UNCHANGED jobs
     ELSE phase' = "scan" /\ jobs' = Submitted(good_zombies)
  /\ UNCHANGED <<scan, target_results, worker, environment, good_zombies, tested, taken, reported>>

Take(w) ==
  /\ phase = "scan"
  /\ w <= scan.max_threads
  /\ On(w, "idle")
  /\ taken < Len(jobs)
  /\ taken' = taken + 1
  /\ worker' = [worker EXCEPT ![w] = [Idle EXCEPT !.job = taken + 1, !.pc = "first probe"]]
  /\ UNCHANGED <<scan, target_results, environment, good_zombies, tested, jobs, phase, reported>>

FinishScan ==
  /\ phase = "scan"
  /\ taken = Len(jobs)
  /\ \A w \in Workers : On(w, "idle")
  /\ phase' = "report"
  /\ UNCHANGED <<scan, target_results, worker, environment, good_zombies, tested, jobs, taken, reported>>

-----------------------------------------------------------------------------
(* Idle_Scan *)

FirstProbe(w) ==
  /\ On(w, "first probe")
  /\ \/ /\ Sends(Z(w))
        /\ IF scan.version = 6
           THEN Settle(w, "filtered_ports")
           ELSE worker' = [worker EXCEPT ![w].pc = "spoof", ![w].id1 = ip_id'[Z(w)]]
     \/ May("lost") /\ Settle(w, "filtered_ports") /\ UNCHANGED ip_id
  /\ UNCHANGED <<scan, target_results, due, chatter, progress>>

Own(w) == [zombie |-> Z(w), job |-> worker[w].job, attempt |-> worker[w].attempt]

\* An open port makes the target send a SYN-ACK to the zombie.
SpoofedSyn(w) ==
  /\ On(w, "spoof")
  /\ \/ due' = IF <<T(w), P(w)>> \in scan.open THEN due \cup {Own(w)} ELSE due
     \/ May("lost") /\ UNCHANGED due
  /\ worker' = [worker EXCEPT ![w].pc = "second probe"]
  /\ UNCHANGED <<scan, target_results, ip_id, chatter, progress>>

\* diff = (id2 - id1) % 65536, and what it is taken for.
Judged(diff) ==
  CASE diff = 1 -> "closed_filtered_ports"
    [] diff = 2 -> "open_ports"
    [] OTHER    -> "filtered_ports"

DiffUnwrapped(id2, id1) == IF id2 >= id1 THEN id2 - id1 ELSE 0
Diff(id2, id1) == (id2 - id1) % IdSpace

\* Before the second probe the worker sleeps 0.3 s: unless it is late, the SYN-ACK
\* has been answered.
SecondProbeHasty(w) ==
  /\ On(w, "second probe")
  /\ Sends(Z(w))
  /\ Settle(w, Judged(Diff(ip_id'[Z(w)], worker[w].id1)))
  /\ UNCHANGED <<scan, target_results, due, chatter, progress>>

SecondProbe(w) ==
  /\ On(w, "second probe")
  /\ Own(w) \notin due \/ May("late")
  /\ \/ Sends(Z(w)) /\ Settle(w, Judged(Diff(ip_id'[Z(w)], worker[w].id1)))
     \/ May("lost") /\ Settle(w, "filtered_ports") /\ UNCHANGED ip_id
  /\ UNCHANGED <<scan, target_results, due, chatter, progress>>

\* _record, the section that appends the port and the one that appends the service,
\* that of a banner if one was asked for and could be grabbed in between.
RecordPort(w) ==
  /\ On(w, "record")
  /\ Write(T(w), AppendPort(target_results[T(w)], worker[w].bucket, P(w)))
  /\ worker' = [worker EXCEPT ![w].pc = "name"]
  /\ UNCHANGED <<scan, environment, progress>>

\* A variant for the check of OneVerdict: an error between the two sections reaches
\* the handler of Idle_Scan.
RecordServiceRaising(w) ==
  /\ On(w, "name")
  /\ \/ /\ Write(T(w), AppendService(target_results[T(w)], worker[w].bucket, Table(P(w))))
        /\ Return(w)
     \/ /\ worker' = [worker EXCEPT ![w].pc = "give_up"]
        /\ UNCHANGED target_results
  /\ UNCHANGED <<scan, environment, progress>>

RecordService(w) ==
  /\ On(w, "name")
  /\ LET r == target_results[T(w)]
     IN  \/ Write(T(w), AppendService(r, worker[w].bucket, Table(P(w))))
         \/ /\ scan.banner
            /\ \E x \in Texts : Write(T(w), AppendService(AppendBanner(r, x, P(w)),
                                                          worker[w].bucket, Banner(P(w))))
  /\ Return(w)
  /\ UNCHANGED <<scan, environment, progress>>

\* sr1 or send raises; the next attempt starts over with the first probe.
CallRaises(w) ==
  /\ May("raise")
  /\ worker[w].pc \in {"first probe", "spoof", "second probe"}
  /\ worker' = IF LastAttempt(w)
               THEN [worker EXCEPT ![w].pc = "give_up"]
               ELSE [worker EXCEPT ![w].pc = "first probe", ![w].attempt = @ + 1]
  /\ UNCHANGED <<scan, target_results, environment, progress>>

\* After the last attempt, in one section, unless the port is known to be open.
GiveUp(w) ==
  LET r == target_results[T(w)]
  IN  /\ On(w, "give_up")
      /\ IF P(w) \in Recorded(r, "open_ports") THEN UNCHANGED target_results
         ELSE Write(T(w), AppendService(AppendPort(r, "filtered_ports", P(w)),
                                        "filtered_ports", Table(P(w))))
      /\ Return(w)
      /\ UNCHANGED <<scan, environment, progress>>

-----------------------------------------------------------------------------
(* The zombies *)

\* A SYN-ACK the zombie did not ask for is answered with a RST.
ZombieResets(d) ==
  /\ due' = due \ {d}
  /\ Sends(d.zombie)
  /\ UNCHANGED <<scan, target_results, worker, chatter, progress>>

\* Its answers to decoys' probes are of this kind too.
ZombieChatters(z) ==
  /\ phase = "scan"
  /\ chatter[z] > 0
  /\ chatter' = [chatter EXCEPT ![z] = @ - 1]
  /\ Sends(z)
  /\ UNCHANGED <<scan, target_results, worker, due, progress>>

-----------------------------------------------------------------------------
(* Scan_details *)

ReportTarget ==
  /\ phase = "report"
  /\ reported < Len(scan.targetss)
  /\ LET t == scan.targetss[reported + 1]
     IN  Write(t, SyncAndDeduplicate(target_results[t]))
  /\ reported' = reported + 1
  /\ UNCHANGED <<scan, worker, environment, good_zombies, tested, jobs, taken, phase>>

FinishReport ==
  /\ phase = "report"
  /\ reported = Len(scan.targetss)
  /\ phase' = "done"
  /\ UNCHANGED <<scan, target_results, worker, environment, good_zombies, tested, jobs, taken, reported>>

Terminated == phase \in {"done", "cut_short"} /\ UNCHANGED vars

Step(w) ==
  \/ Take(w) \/ FirstProbe(w) \/ SpoofedSyn(w) \/ SecondProbe(w)
  \/ RecordPort(w) \/ RecordService(w) \/ CallRaises(w) \/ GiveUp(w)
Main == TestZombie \/ TestRaises \/ StartScan \/ FinishScan \/ ReportTarget \/ FinishReport
Zombie == (\E d \in due : ZombieResets(d)) \/ \E z \in Zombies : ZombieChatters(z)

Next == Main \/ (\E w \in Workers : Step(w)) \/ Zombie \/ Terminated

Spec == Init /\ [][Next]_vars
-----------------------------------------------------------------------------
(* Properties *)

Asked == {scan.targetss[i] : i \in DOMAIN scan.targetss}
         \X {scan.ports_to_scan[i] : i \in DOMAIN scan.ports_to_scan}
VerdictsOf(k) == {b \in Buckets : k[2] \in Recorded(target_results[k[1]], b)}

\* No target and no port is named twice.
NoneTwice ==
  /\ \A i, j \in DOMAIN scan.targetss : scan.targetss[i] = scan.targetss[j] => i = j
  /\ \A i, j \in DOMAIN scan.ports_to_scan : scan.ports_to_scan[i] = scan.ports_to_scan[j] => i = j

\* However many attempts raise, a port stands in one bucket and once: what is retried
\* has recorded nothing, and no two zombies were given the same port.
OneVerdict ==
  NoneTwice => \A k \in Asked :
    /\ Cardinality(VerdictsOf(k)) <= 1
    /\ \A b \in VerdictsOf(k) :
         Cardinality({i \in DOMAIN target_results[k[1]].ports[b] :
                        target_results[k[1]].ports[b][i] = k[2]}) = 1

\* PORT_SECTIONS["idle"]
Printed == {"open_ports", "closed_filtered_ports", "filtered_ports"}

\* A port that is open is never taken for closed, whatever other workers and the
\* zombie itself send in between: what disturbs a difference can only raise it, and
\* only a lost SYN or a late answer can hide an open port.  The converse does not
\* hold: with two workers at one zombie a closed port can look open.
ClosedIsNotOpen ==
  ~May("lost") /\ ~May("late") =>
    \A k \in Asked \cap scan.open : "closed_filtered_ports" \notin VerdictsOf(k)

\* One thread and a silent zombie: the verdicts are the truth, across the wrap of the
\* identifier too.
SoleWorkerExact ==
  (scan.max_threads = 1 /\ scan.chatter = 0 /\ scan.faults = {} /\ scan.version = 4) =>
    \A k \in Asked : VerdictsOf(k) \subseteq
      {IF k \in scan.open THEN "open_ports" ELSE "closed_filtered_ports"}

-----------------------------------------------------------------------------
(* The idle scan implements VerdictLedger: until the zombies are known every port is *)
(* pending, and without a zombie the scan is withdrawn.                              *)

PendingKeys ==
  IF phase \in {"test", "cut_short"} \/ good_zombies = <<>> THEN Asked
  ELSE {<<jobs[n].target, jobs[n].port>> : n \in {m \in DOMAIN jobs :
          m > taken \/ \E w \in Workers : worker[w].job = m}}

ledger == INSTANCE VerdictLedger WITH
  Keys     <- Targets \X Ports,
  Verdicts <- Printed,
  pending  <- PendingKeys,
  verdicts <- [k \in Targets \X Ports |-> VerdictsOf(k) \cap Printed],
  excused  <- {},
  phase    <- IF phase \in {"test", "scan"} THEN "open"
              ELSE IF phase = "cut_short" \/ good_zombies = <<>> THEN "withdrawn"
              ELSE "published"

\* Every step of a scan is one the ledger allows: every job returns with a verdict the
\* report prints, none changes afterwards, and when a zombie answered the split over
\* the zombies has left no port out, also with more zombies than ports.  That is so for
\* zombies with different names: a name given twice keeps only its last slice of ports.
LedgerKept == ledger!Spec
=============================================================================
