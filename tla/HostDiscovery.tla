---------------------------- MODULE HostDiscovery ----------------------------
(***************************************************************************)
(* The host discovery of Lightscan.py and LightEngine.py: which of the     *)
(* targets are up.  A method submits one call per target, or per target    *)
(* and port or protocol, to a ThreadPoolExecutor; the calls append to the  *)
(* shared list targetss and count in target_results[t], some of them under *)
(* self.lock.  An ICMP ping that gets no answer may start a whole TCP      *)
(* discovery, with a pool of its own, from inside its worker.              *)
(*                                                                         *)
(* An action is a thread's local work up to and including one access to    *)
(* shared state.  A pool's jobs are all queued from the start: a job that  *)
(* is submitted late is one that no thread takes before.                   *)
(***************************************************************************)
EXTENDS Integers, Sequences, FiniteSets

CONSTANTS Targets,     \* addresses
          Loopback,    \* those for which is_loopback holds
          MaxThreads,  \* the largest pool of the discoveries in Discoveries
          Discoveries  \* the discoveries to model

Methods  == {"icmp", "icmpv6", "tcp", "syn", "udp", "ack", "arp", "ndp", "ip"}
TrustsLoopback == {"tcp", "syn", "udp", "icmp", "icmpv6"}
PerPort  == {"tcp", "syn", "udp", "ack"}
Verdicts == {"up", "down", "filtered"}

\* -st PING goes through several methods, version 4 or 6; any other discovery has one.
PingScans == {<<"icmp", "tcp", "ack", "icmp", "syn">>, <<"icmpv6", "tcp", "ack", "syn">>}

\* One discovery: the methods it goes through and the command line they run under.
\* "raise" lets a probe raise.
DiscoveryType ==
  [ methods     : {<<m>> : m \in Methods} \cup PingScans,
    recursively : BOOLEAN,
    ping_port   : BOOLEAN,
    ports       : Nat \ {0},   \* ports or protocols probed per target
    max_threads : 1..MaxThreads,
    targets     : Seq(Targets),
    raise       : BOOLEAN ]

ASSUME DiscoveryAssumption ==
  /\ MaxThreads \in Nat \ {0}
  /\ Loopback \subseteq Targets
  /\ Discoveries \subseteq DiscoveryType

VARIABLES scan,       \* the discovery that runs; never changes
          step,       \* the position in scan.methods
          targetss,   \* the shared list of hosts found up
          tally,      \* target_results[t]['up'], and ['down'], ['filtered']
          taken,      \* how many jobs of each pool a thread took
          thread,     \* what each thread of each pool is doing
          judged,     \* how many targets the IP ping has given its verdict on
          phase,      \* "discover", "done" or "cut_short"
          answered,   \* hosts that answered a probe (for "ip": as up)
          announced,  \* hosts the output called up
          shown_down  \* hosts the output called down after all probes

lists == <<targetss, tally>>
said  == <<answered, announced, shown_down>>
vars  == <<scan, step, lists, taken, thread, judged, phase, said>>

Inline == scan.max_threads = 1
Single == Len(scan.targets) = 1

\* Pool 0 runs the method, pool w the TCP discovery its worker w started.
Pools   == 0..MaxThreads
Threads == Pools \X (1..MaxThreads)
Workers(p) == {th \in Threads : th[1] = p}

MethodOf(p) == IF p = 0 THEN scan.methods[step] ELSE "tcp"

Jobs(m) ==
  LET each == IF m \in PerPort \cup {"ip"} THEN scan.ports ELSE 1
  IN  [n \in 1 .. Len(scan.targets) * each |-> scan.targets[((n - 1) \div each) + 1]]

Labels == {"idle", "probe", "read", "write", "check", "append", "nested"}
Idle   == [job |-> 0, pc |-> "idle", attempt |-> 0, verdict |-> "up", seen |-> 0]

M(th) == MethodOf(th[1])
T(th) == Jobs(M(th))[thread[th].job]
At(th, label, methods) == thread[th].pc = label /\ M(th) \in methods

\* The thread is about to probe its target, which is no loopback target of a
\* method that takes those to be up.
Probing(th, methods) ==
  /\ At(th, "probe", methods)
  /\ T(th) \in Loopback => M(th) \notin TrustsLoopback

Goto(th, label) == thread' = [thread EXCEPT ![th].pc = label]
Return(th)      == thread' = [thread EXCEPT ![th] = Idle]

Listed(t) == \E i \in DOMAIN targetss : targetss[i] = t
List(t)   == targetss' = Append(targetss, t)
Count(t, v, n) == tally' = [tally EXCEPT ![t][v] = n]

Answer(t)   == answered' = answered \cup {t}
Announce(t) == announced' = announced \cup {t}
ShowDown    == shown_down' = shown_down \cup
                 {t \in Targets : (\E i \in DOMAIN scan.targets : scan.targets[i] = t)
                                  /\ tally[t]["up"] = 0}

Init ==
  /\ scan \in Discoveries
  /\ step = 1
  /\ targetss = <<>>
  /\ tally = [t \in Targets |-> [v \in Verdicts |-> 0]]
  /\ taken = [p \in Pools |-> 0]
  /\ thread = [th \in Threads |-> Idle]
  /\ judged = 0
  /\ phase = "discover"
  /\ answered = {}
  /\ announced = {}
  /\ shown_down = {}

-----------------------------------------------------------------------------
(* The pools *)

Open(p) == phase = "discover" /\ (p # 0 => thread[<<0, p>>].pc = "nested")

\* A free thread takes the oldest job of its pool.
Take(th) ==
  LET p == th[1]
  IN  /\ Open(p)
      /\ th[2] <= scan.max_threads
      /\ thread[th].pc = "idle"
      /\ taken[p] < Len(Jobs(MethodOf(p)))
      /\ taken' = [taken EXCEPT ![p] = @ + 1]
      /\ thread' = [thread EXCEPT ![th] = [Idle EXCEPT !.job = taken[p] + 1, !.pc = "probe"]]
      /\ UNCHANGED <<scan, step, lists, judged, phase, said>>

Finished(p) ==
  /\ Open(p)
  /\ taken[p] = Len(Jobs(MethodOf(p)))
  /\ \A th \in Workers(p) : thread[th].pc = "idle"

\* A job ends by an exception.  Its future swallows it; without a pool it ends
\* the discovery.
Fail(th) ==
  IF Inline
  THEN /\ phase' = "cut_short"
       /\ thread' = [x \in Threads |-> Idle]
  ELSE Return(th) /\ UNCHANGED phase

\* socket.socket, sr1 or arp_scan raises; IP_Ping and ndp_scan catch it.
ProbeRaises(th) ==
  /\ scan.raise
  /\ Probing(th, Methods \ {"ip", "ndp"})
  /\ Fail(th)
  /\ UNCHANGED <<scan, step, lists, taken, judged, said>>

\* ndp_scan catches an exception, and has no way to a link-local address.
NdpSkips(th) ==
  /\ Probing(th, {"ndp"})
  /\ Return(th)
  /\ UNCHANGED <<scan, step, lists, taken, judged, phase, said>>

-----------------------------------------------------------------------------
(* TCP, SYN and UDP pings *)

\* A loopback target is up without a probe; it is appended without the lock and
\* without a look at the list, and not counted.
LoopbackUp(th) ==
  /\ At(th, "probe", TrustsLoopback)
  /\ T(th) \in Loopback
  /\ List(T(th))
  /\ Announce(T(th))
  /\ Return(th)
  /\ UNCHANGED <<scan, step, tally, taken, judged, phase, answered, shown_down>>

\* Variants named after a mistake are not part of the discovery: each is what a
\* plausible bug would make of the definition that follows it.
ListIfAbsentUnchecked(t) == List(t)
\* if Target not in self.targetss: append, in one section under the lock.
ListIfAbsent(t) == IF Listed(t) THEN UNCHANGED targetss ELSE List(t)

RecordHostUpUncounted(t) == ListIfAbsent(t) /\ UNCHANGED tally
\* _record_host_up: listed and counted in one section under the lock.
RecordHostUp(t) == ListIfAbsent(t) /\ Count(t, "up", tally[t]["up"] + 1)

\* connect_ex succeeds, or -Rc takes the host to be up all the same.
TcpUp(th) ==
  /\ Probing(th, {"tcp"})
  /\ Answer(T(th)) \/ (scan.recursively /\ UNCHANGED answered)
  /\ RecordHostUp(T(th))
  /\ Announce(T(th))
  /\ Return(th)
  /\ UNCHANGED <<scan, step, taken, judged, phase, shown_down>>

\* port_parse never leaves the ports to scan empty, for which the code has a branch here.
TcpDown(th) ==
  /\ Probing(th, {"tcp"})
  /\ ~scan.recursively
  /\ Return(th)
  /\ UNCHANGED <<scan, step, lists, taken, judged, phase, said>>

\* Any answer counts; only one of the method's own protocol is announced.
PingUp(th) ==
  /\ Probing(th, {"syn", "udp"})
  /\ Answer(T(th))
  /\ RecordHostUp(T(th))
  /\ Announce(T(th)) \/ UNCHANGED announced
  /\ Return(th)
  /\ UNCHANGED <<scan, step, taken, judged, phase, shown_down>>

\* A single target is scanned even if it does not answer a SYN.
PingSilent(th) ==
  /\ Probing(th, {"syn", "udp"})
  /\ IF M(th) = "syn" /\ Single THEN ListIfAbsent(T(th)) ELSE UNCHANGED targetss
  /\ Return(th)
  /\ UNCHANGED <<scan, step, tally, taken, judged, phase, said>>

-----------------------------------------------------------------------------
(* ICMP pings: _handle_discovery_response and host_discovery_ipv6 *)

\* Appended without the lock and without a look at the list, counted after.
IcmpUp(th) ==
  /\ Probing(th, {"icmp", "icmpv6"})
  /\ Answer(T(th))
  /\ Announce(T(th))
  /\ List(T(th))
  /\ Goto(th, "read")
  /\ UNCHANGED <<scan, step, tally, taken, judged, phase, shown_down>>

\* With -Rc the worker runs threded_Tcp_host_discovery over all the targets.
IcmpRecurses(th) ==
  /\ Probing(th, {"icmp"})
  /\ scan.recursively
  /\ Goto(th, "nested")
  /\ taken' = [taken EXCEPT ![th[2]] = 0]
  /\ UNCHANGED <<scan, step, lists, judged, phase, said>>

IcmpSilent(th) ==
  /\ Probing(th, {"icmp", "icmpv6"})
  /\ ~(M(th) = "icmp" /\ scan.recursively)
  /\ IF (M(th) = "icmpv6" /\ scan.recursively) \/ (M(th) = "icmp" /\ Single)
     THEN List(T(th))
     ELSE UNCHANGED targetss
  /\ Return(th)
  /\ UNCHANGED <<scan, step, tally, taken, judged, phase, said>>

FinishNestedWithTheOuter(th) ==
  /\ th[1] = 0
  /\ At(th, "nested", {"icmp"})
  /\ Finished(th[2]) /\ Finished(0)
  /\ ShowDown
  /\ Return(th)
  /\ UNCHANGED <<scan, step, lists, taken, judged, phase, answered, announced>>

\* The nested discovery ends like any TCP discovery, and its worker returns.
FinishNested(th) ==
  /\ th[1] = 0
  /\ At(th, "nested", {"icmp"})
  /\ Finished(th[2])
  /\ ShowDown
  /\ Return(th)
  /\ UNCHANGED <<scan, step, lists, taken, judged, phase, answered, announced>>

-----------------------------------------------------------------------------
(* ACK, ARP, NDP and IP protocol pings of LightEngine *)

AckUp(th) ==
  /\ Probing(th, {"ack"})
  /\ Answer(T(th))
  /\ Goto(th, "read")
  /\ UNCHANGED <<scan, step, lists, taken, judged, phase, announced, shown_down>>

\* After the count, and for a silent host: with --ping-port the number of
\* targets is an integer, and len() of it raises.
AckRaises(th) ==
  /\ scan.ping_port
  /\ Probing(th, {"ack"}) \/ At(th, "check", {"ack"})
  /\ Fail(th)
  /\ UNCHANGED <<scan, step, lists, taken, judged, said>>

AckSilent(th) ==
  /\ ~scan.ping_port
  /\ Probing(th, {"ack"})
  /\ IF Single /\ ~Listed(T(th)) THEN Goto(th, "append") ELSE Return(th)
  /\ UNCHANGED <<scan, step, lists, taken, judged, phase, said>>

CheckSwapped(th) ==
  /\ ~scan.ping_port
  /\ At(th, "check", {"ack"})
  /\ IF Listed(T(th)) THEN Goto(th, "append") ELSE Return(th)
  /\ IF Single THEN Announce(T(th)) ELSE UNCHANGED announced
  /\ UNCHANGED <<scan, step, lists, taken, judged, phase, answered, shown_down>>

\* if target not in targetss: ...
Check(th) ==
  /\ ~scan.ping_port
  /\ At(th, "check", {"ack"})
  /\ IF Listed(T(th)) THEN Return(th) ELSE Goto(th, "append")
  /\ IF Single THEN Announce(T(th)) ELSE UNCHANGED announced
  /\ UNCHANGED <<scan, step, lists, taken, judged, phase, answered, shown_down>>

\* ... targetss.append(target), without the lock.
AppendHost(th) ==
  /\ At(th, "append", {"ack", "ndp"})
  /\ List(T(th))
  /\ Return(th)
  /\ UNCHANGED <<scan, step, tally, taken, judged, phase, said>>

ArpUp(th) ==
  /\ Probing(th, {"arp"})
  /\ Answer(T(th))
  /\ List(T(th))
  /\ Return(th)
  /\ UNCHANGED <<scan, step, tally, taken, judged, phase, announced, shown_down>>

\* arp_scan returns only answers: nothing is listed for a silent host.
ArpSilent(th) ==
  /\ Probing(th, {"arp"})
  /\ Return(th)
  /\ UNCHANGED <<scan, step, lists, taken, judged, phase, said>>

NdpUp(th) ==
  /\ Probing(th, {"ndp"})
  /\ Answer(T(th))
  /\ Announce(T(th))
  /\ IF Listed(T(th)) THEN Return(th) ELSE Goto(th, "append")
  /\ UNCHANGED <<scan, step, lists, taken, judged, phase, shown_down>>

\* Listed without a look at the list if it is the only target.
NdpSilent(th) ==
  /\ Probing(th, {"ndp"})
  /\ IF Single THEN Goto(th, "append") ELSE Return(th)
  /\ UNCHANGED <<scan, step, lists, taken, judged, phase, said>>

\* One attempt of IP_Ping: how _classify_ip_ping_response takes the answer.
\* No answer counts as down, an exception as filtered.
IpProbe(th) ==
  /\ Probing(th, {"ip"})
  /\ \E v \in Verdicts :
       /\ thread' = [thread EXCEPT ![th].pc = "read", ![th].verdict = v]
       /\ IF v = "up" THEN Answer(T(th)) ELSE UNCHANGED answered
  /\ UNCHANGED <<scan, step, lists, taken, judged, phase, announced, shown_down>>

-----------------------------------------------------------------------------
(* target_results[target][...] += 1 without the lock: a read, then a write *)

ReadCount(th) ==
  /\ thread[th].pc = "read"
  /\ thread' = [thread EXCEPT ![th].pc = "write",
                              ![th].seen = tally[T(th)][thread[th].verdict]]
  /\ UNCHANGED <<scan, step, lists, taken, judged, phase, said>>

AttemptsLeftPlusOne(th) == M(th) = "ip" /\ thread[th].attempt <= 1
\* for i in range(2)
AttemptsLeft(th) == M(th) = "ip" /\ thread[th].attempt < 1

WriteCount(th) ==
  /\ thread[th].pc = "write"
  /\ Count(T(th), thread[th].verdict, thread[th].seen + 1)
  /\ IF AttemptsLeft(th)
     THEN thread' = [thread EXCEPT ![th].pc = "probe", ![th].attempt = @ + 1,
                                   ![th].verdict = "up", ![th].seen = 0]
     ELSE IF M(th) = "ack" THEN Goto(th, "check") ELSE Return(th)
  /\ UNCHANGED <<scan, step, targetss, taken, judged, phase, said>>

-----------------------------------------------------------------------------
(* The end of a method *)

\* Up, down or filtered only if it outnumbers the two others.
Wins(t, v) == \A u \in Verdicts \ {v} : tally[t][v] > tally[t][u]

TakenUpSwapped(t) == Single \/ Wins(t, "down")
\* A single target is scanned whatever the verdict.
TakenUp(t) == Single \/ Wins(t, "up")

\* threaded_ip_ping takes the targets one by one after all the answers.
Judge ==
  /\ scan.methods[step] = "ip"
  /\ Finished(0)
  /\ judged < Len(scan.targets)
  /\ LET t == scan.targets[judged + 1]
     IN  /\ IF TakenUp(t) THEN ListIfAbsent(t) ELSE UNCHANGED targetss
         /\ IF Wins(t, "up") THEN Announce(t) ELSE UNCHANGED announced
  /\ judged' = judged + 1
  /\ UNCHANGED <<scan, step, tally, taken, thread, phase, answered, shown_down>>

\* The next method starts from empty queues, or the discovery is over.
FinishMethod ==
  /\ Finished(0)
  /\ scan.methods[step] = "ip" => judged = Len(scan.targets)
  /\ IF scan.methods[step] \in PerPort THEN ShowDown ELSE UNCHANGED shown_down
  /\ taken' = [p \in Pools |-> 0]
  /\ judged' = 0
  /\ IF step = Len(scan.methods)
     THEN phase' = "done" /\ UNCHANGED step
     ELSE step' = step + 1 /\ UNCHANGED phase
  /\ UNCHANGED <<scan, lists, thread, answered, announced>>

Terminated ==
  /\ phase # "discover"
  /\ UNCHANGED vars

-----------------------------------------------------------------------------

Step(th) ==
  \/ Take(th) \/ ProbeRaises(th) \/ LoopbackUp(th)
  \/ TcpUp(th) \/ TcpDown(th) \/ PingUp(th) \/ PingSilent(th)
  \/ IcmpUp(th) \/ IcmpRecurses(th) \/ IcmpSilent(th) \/ FinishNested(th)
  \/ AckUp(th) \/ AckRaises(th) \/ AckSilent(th) \/ Check(th) \/ AppendHost(th)
  \/ ArpUp(th) \/ ArpSilent(th) \/ NdpUp(th) \/ NdpSilent(th) \/ NdpSkips(th)
  \/ IpProbe(th) \/ ReadCount(th) \/ WriteCount(th)

Main == FinishMethod \/ Judge

Next == Main \/ (\E th \in Threads : Step(th)) \/ Terminated

Spec == Init /\ [][Next]_vars

\* Every thread is scheduled and no probe waits forever: sr1, srp and
\* connect_ex carry a timeout.
FairSpec == Spec /\ WF_vars(Main) /\ \A th \in Threads : WF_vars(Step(th))
-----------------------------------------------------------------------------
(* Properties *)

MostJobs == Len(scan.targets) * scan.ports

\* Every variable has its type; a thread holds a job of its pool exactly while it
\* is busy, and IP_Ping probes no protocol more than twice.
TypeOK ==
  /\ scan \in Discoveries
  /\ step \in DOMAIN scan.methods
  /\ targetss \in Seq(Targets)
  /\ tally \in [Targets -> [Verdicts -> Nat]]
  /\ taken \in [Pools -> 0..MostJobs]
  /\ thread \in [Threads -> [ job : 0..MostJobs, pc : Labels, attempt : 0..1,
                              verdict : Verdicts, seen : Nat ]]
  /\ \A th \in Threads :
       /\ thread[th].pc = "idle" <=> thread[th].job = 0
       /\ thread[th].job <= taken[th[1]]
  /\ judged \in 0..Len(scan.targets)
  /\ phase \in {"discover", "done", "cut_short"}
  /\ answered \cup announced \cup shown_down \subseteq Targets

Over == phase # "discover"

\* A host that answered stands in targetss when the discovery is over, however
\* the calls interleave, increments get lost or calls raise; for the IP protocol
\* ping, a host all of whose probes came back up.  Left out: an ACK ping of chosen
\* ports, after which CountedHostsListed fails.
AnsweringHostsListed ==
  Over /\ ~scan.ping_port => \A t \in answered :
    Listed(t) \/ tally[t]["down"] + tally[t]["filtered"] > 0

\* No host is listed that did not answer, unless it is the only target or
\* recursive mode takes silent hosts to be up.
OnlyHostsFound ==
  \A i \in DOMAIN targetss :
    targetss[i] \in answered \cup Loopback \/ Single \/ scan.recursively

\* The one method of the discovery either looks at the list under the lock or in its
\* only thread, or has one call per host, as no target is given twice.
Guarded ==
  /\ Len(scan.methods) = 1
  /\ CASE scan.methods[1] \in {"icmp", "icmpv6", "arp", "ndp"} ->
            /\ scan.methods[1] = "icmp" => ~scan.recursively
            /\ \A i, j \in DOMAIN scan.targets : scan.targets[i] = scan.targets[j] => i = j
       [] scan.methods[1] = "ack" -> Inline
       [] OTHER -> TRUE

\* Such a method lists no host twice, so that none is scanned or reported twice.
\* Loopback targets, appended once per port, are left out.
HostListedOnce ==
  Guarded => \A i, j \in DOMAIN targetss :
    targetss[i] = targetss[j] /\ targetss[i] \notin Loopback => i = j

\* A nested discovery may lose its call for a host to an exception, while the ICMP ping
\* of another thread has called that host up and not yet counted it.
CallsGetLost ==
  /\ scan.raise /\ scan.recursively /\ ~Inline
  /\ \E i \in DOMAIN scan.methods : scan.methods[i] = "icmp"

\* A host called up is not called down afterwards: its count never falls back to
\* zero, even where increments race.  Loopback targets, which are never counted,
\* are left out, and so is CallsGetLost.
UpIsNotShownDown ==
  [][~CallsGetLost => \A t \in Targets \ Loopback :
       t \in announced /\ t \notin shown_down => t \notin shown_down']_vars

\* A host counted as up is listed when the discovery is over.
CountedHostsListed ==
  Over => \A t \in Targets :
    tally[t]["up"] > 0 => Listed(t) \/ scan.methods = <<"ip">>

\* Every discovery comes to its end; a worker that waits for a nested discovery
\* never waits for a thread of its own pool.
DiscoveryEnds == <>Over
=============================================================================
