# Light-Scan in TLA+

A verification project for [Light-Scan](../src/README.md), a network scanner in
Python. It models the scans, in which several threads write one record, retries
meet exceptions and a report reads what the threads left; the session around them,
from the command line to the report; the crawler of the scripting engine; captures
that are interrupted and the files they leave; and the compiler of capture filters.
TLC checks the models on small instances, and TLAPS proves most safety properties of the
scans, of host discovery, of the session, of the crawler and of captures and their files
for any number of threads, targets, ports, retries, pages and frames.

Line numbers without a file name are those of `src/Lightscan.py`.

## 1. Inventory

| Component | State it keeps | Operations | Hard part | What makes it correct |
|---|---|---|---|---|
| Result store (282-350, 1015-1021) | `target_results[t]`: a list of ports per bucket, a parallel list of services, `banners` / `banners_ports`, counters `up`, `down`, `filtered` | `initialize_target_results`, `_record`, `_sync_and_deduplicate_ports` | parallel lists tied together by position only | no port lost by the clean-up, services beside their own ports |
| Port scans TCP, SYN, UDP, loopback (514-546, 884-1009, 1164-1295, 1907-1987, 2615-2757) | the store, the executor's queue, one worker per thread | probe, retry, record, grab a banner | unlocked appends, retries after an exception, swallowed futures | one verdict per port, every port reported, the report sees finished lists, termination |
| Host discovery (1297-1857, `LightEngine.py` 193-360, 996-1270) | `targetss` (hosts up), counters per target | nine kinds of ping, in pools, nested | check-then-append, a pool inside a worker, exceptions after a count | who answers is scanned, nobody else, not twice; it ends |
| One-packet scans (`LightEngine.py` 361-994, 1453-1735) | the store | flag scans (8), SCTP INIT, SCTP COOKIE-ECHO, IP protocols | two locked sections with a banner grab between | one verdict, lists of equal content, every bucket printed |
| Idle scan, FTP bounce (`LightEngine.py` 1272-1451, 1737-1930) | the store, the zombie's IP identifier, the FTP control connection | split ports over zombies, read the identifier twice | the identifier is shared by all workers and wraps | an open port never looks closed, every port gets one verdict |
| Session and command line (367-860, 2210-2613, 2832-2849) | arguments, profile, output file | parse, discover, scan, report, save, daemon loop | phases share the store, a profile outlives the run | what was written is scanned, what was found is reported, a profile restores |
| Banner grabbing (`banner_grabber/`, `Services.py`) | none | `Banner.grab`, tables | may raise, may time out | external to the models: any answer |
| Scripting engine (`LSSE/`) | the spider's queue, visited set and results | one script per run | pages in flight, reads without the lock | a page asked for once, no link forgotten, limits passed by a known amount |
| Panels (`LightPanel6.py`, `Gui2/`) | buttons, worker, thread, child process | start, stop, close, finished | signals of an earlier worker arrive late | Stop is possible while a scan runs, one scan at a time |
| Capture (`LightSniff.py`, `LightPacket/Sniffer.py`, `Gui2/Sniffer/CapWorker.py`) | the list of packets, a stop flag, the open file | start, stream, save, stop, kill | signals between any two steps, also while saving | what was captured is saved as far as the format keeps it, or cut but never wrong |
| Capture files (`LightPacket/lib/`, `Saving/`, `file/`, `utils/replay.py`) | files | write and read pcap, pcapng, lbn; replay | lengths, padding, byte order, files cut anywhere | what is read back is what was written, as far as the format keeps it |
| BPF compiler (`LightPacket/LightBPF/`) | the compiler's memory of what stands to the left | lexer, parser, compiler, assembler, optimiser, emulator | jump offsets, checks left out as already made | a program accepts what the filter means; optimised or not |
| Address ranges (`LightPacket/utils/CIDR.py`, 786-860) | none (pure) | expand, limit, exclude | boundaries, combinations | exactly the addresses of the range |
| Saved results (`LightSave.py`, `LightDiff.py`) | files | write, compare | lists compared by key | what changed, once |
| Firewall and OS scores (`firewall_ase.py`, `Lightscan_os/`) | none (pure) | count, weigh | boundaries of the score | within its range, monotone |
| Packet dressing, protocol layers, interfaces, setup | none, or the system's | build bytes, call the system | - | left out |

How they interact. `Lightscan` owns the store, the list `targetss` and one
`threading.Lock`, and hands all three to the static methods of `LightEngine.Payloads`
as arguments; so both files write the same lists from the threads of a
`ThreadPoolExecutor`. Discovery runs first and fills `targetss`; the scans run
over `targetss` (with one thread, the scans of the core run over all targets);
`Scan_details` runs last, tidies the lists of each target and prints them. There
are no messages between threads but these lists, and nothing persistent but the
profile and the file the output is copied to. An exception in a pooled job ends in its
future and is printed in verbose mode only; in a scan without a pool it ends the scan.
LightSniff is a program of its own, which the capture panel runs as a child process
and stops with a signal; it compiles a filter, captures, and writes a file that
`LightSniff -r` and `replay` read.

`PROJECT.json` lists under `hazards` what is hard to test in all this, each at its
line, with the properties that cover it or the reason why none does.

## 2. Modules

| Module | Models | State |
|---|---|---|
| `TargetResults` | the record of one target and the operations on it; operators only | - |
| `VerdictLedger` | the abstract specification: what any scan promises | `pending`, `verdicts`, `excused`, `phase` |
| `PortScan` | TCP, SYN and UDP scans with retries, loopback handler, banners, report | `scan`, `target_results`, `submitted`, `taken`, `worker`, `failed`, `phase`, `reported` |
| `HostDiscovery` | the nine discovery methods, recursion, ping scans of several methods | `scan`, `step`, `targetss`, `tally`, `taken`, `thread`, `judged`, `phase`, and what was answered and said |
| `FlagScan` | flag, SCTP and IP protocol scans and the lists the report tidies | as `PortScan`, without a submission queue |
| `IdleScan` | the idle scan, its zombies and the split of the ports over them | as `FlagScan`, with `good_zombies`, `tested`, and of the zombies `ip_id`, `due`, `chatter` |
| `TargetParser` | from `-T`, `--exclude` and `-p` to addresses and ports; operators only | - |
| `Session` | `_run_scan_mode` twice in a row, with the profile in between | `run`, `pc`, `command`, `args`, the lists of targets and ports, `target_results`, `reported`, `profile`, `first` |
| `Spider` | `spider.lsse`: the main thread and `crawl_page` | `crawl`, `queue`, `visited`, `results`, `futures`, `pc`, `at`, `links` |
| `CaptureFile` | the bytes of pcap, pcapng and lbn files, written and read; operators only | - |
| `Capture` | `main` of LightSniff, `Sniffer.stream`, the panel's Stop, signals, the disk, `replay` | `opts`, `pc`, `handling`, `frame`, `captured`, `packets`, `file`, `written`, `pending`, `signals`, `stopping`, `outcome`, `replay` |
| `BpfMachine` | instructions, the emulator, the passes of the optimiser; operators only | - |
| `BpfParser` | classes of words, and the parser; operators only | - |
| `BpfCompiler` | from a tree to a program, and assembly; operators only | - |
| `BpfFilter` | the life of a filter: words, tree, code, passes, one frame run instruction by instruction; and what a filter means | `filter`, `tree`, `code`, `stage`, `frame`, `vm` |
| `MC...` | instances for TLC | - |
| `TargetResults_proofs` | lemmas about sequences (appending, flattening, shuffling) and about the record of a target (appends and the clean-up) | - |
| `PortScan_proofs`, `FlagScan_proofs`, `IdleScan_proofs`, `HostDiscovery_proofs`, `Session_proofs`, `Spider_proofs`, `Capture_proofs` | theorems about the modules they are named after | - |

`PortScan`, `FlagScan` and `IdleScan` extend `TargetResults`, and each declares an
instance of `VerdictLedger` with a refinement mapping: a pair of target and port is
pending until the last job for it has returned, its verdicts are the buckets it stands
in, and the ledger is published when the scan ends and the report begins (and withdrawn
when an exception, or the lack of zombies, ends the scan before that). `LedgerKept`
says that every step maps to a step of the ledger or to none. So it says of all three
in the same words that nobody writes a verdict out of turn, that no job
returns without a verdict unless it raised, and that the clean-up, which reorders
and cuts lists, takes no verdict away. `HostDiscovery` stands alone:
what it hands over to a scan is `targetss`, which is a parameter of a scan in the
others (any sequence of targets, repetitions included, as discovery may list a
loopback target twice). `Session` composes the phases by what these modules promise of
them: some targets answer, and every port of a listed target is judged.

**Grain.** An action is the local work of one thread up to and including one
access to shared state: a section under `self.lock`, or one unlocked append,
which the interpreter executes as a whole. So `_record` is one step in `PortScan`
(one section, lines 1015-1021) but `LightEngine._record` two in `FlagScan`
(365-369 and 381-385), and `_grab_and_record_banner` is `Grab` followed by
`RecordBanner` or `RecordNoBanner`.

**Correspondence.** `scan` is the command line of one run and never changes;
TLC takes it from a finite set, so one run covers many command lines. `Jobs` is
the order in which the calls are submitted. `worker[w]` is a thread's program
counter: the job it holds, the attempt it is in and the label it stopped at.
`failed` are the jobs whose future holds an exception. `target_results[t]` has
two functions from buckets to sequences (`ports` and `services`), as
`PORT_TO_SERVICES` pairs them, and the two lists of banners. A service is
recorded as the port it was looked up for and whether a table or a banner named
it: the properties tell no more apart. What a peer answers, which call raises and
what a banner says are choices of the environment, limited by `scan.faults` (or
`scan.raise`) so that a run can say which exceptions it is about.

**Idle scan.** The zombies are the environment: each packet one sends takes the next
identifier, a SYN-ACK of the target reaches it some time after the spoofed SYN (`due`)
and is answered with a RST, and it may send packets of its own (`chatter`). A worker's
`sleep(0.3)` between the probes is the guard of `SecondProbe` (the SYN-ACK has been
answered) which the fault "late" lifts. `zombie_ports` is a dictionary, so a zombie
named twice keeps its first place and the ports of its last: the ports of the earlier
slice are not scanned (line 1413 of `LightEngine.py`). The instances name each zombie once,
and `LedgerKept` is a theorem for such scans only. An exception while the zombies are
tried is caught by nobody but `main` (`TestRaises`): the scan ends without a report. A
target or port that is named twice is scanned twice and may then get two verdicts;
`OneVerdict` says so in its hypothesis.

**Session.** An address is a number, and an item of `-T` a record whose kind is the
character (dash, slash, backslash) that decides its expansion; the limits and the
checks of each expansion are those of the code. The state of a record is reduced to
what a later phase can tell: fresh, counted in, replaced by one that has no port lists,
judged, or the cause of a `KeyError`; a target without a record is not in the domain of
`target_results`. `targetss` is a set here: its order and repetitions are the matter of
`HostDiscovery`. The two runs share the profile and nothing else.

**Spider.** `futures` is the dictionary of calls in flight in order of submission; the
main thread is a program counter that looks at one entry, then at one link, then at
`visited` and at queue and futures in two steps, as the code does without the lock.

**Capture.** A signal is pending from when it is sent until Python's next bytecode; while
one is pending the program takes no step, so a signal can strike between any two steps
but not inside a call of the C libraries. Ctrl+C while `recv_one` waits ends `stream` and
the capture is saved by the body of the `try`; everywhere else, and SIGTERM everywhere,
it is saved by the handler in `main`, from the start. The exception is the handling of a
frame: the bare `except:` clauses of `packet_callback` (`LightSniff.py` 445, 495, 630 and,
around every UDP payload, 659) and of `Vlan.py` (144) take `KeyboardInterrupt` and the
`SystemExit` of the signal handler like any other exception, and the capture goes on
(`Swallow`). `file` is what is on disk: whole
blocks and the bytes of the next. A kill, a full disk or a second signal leave any
part of what was handed over. A frame is as long as it was on the wire (`L2SocketL.py` 274
and `L2Socket.py` 209 take `len`, not `caplen`), so it may be longer than the 65535 bytes
(`PCAP_SNAPLEN`) to which `create_pcap_file` cuts a packet (`Captured`); pcapng and lbn
write all of it, and the reader of pcapng takes up to 64 MiB (`PCAPNG_MAX_PACKET`).

**BPF.** Words of 32 bits are the signed integers of the same bits. `Meaning` is defined
over the frame and the tree alone, never over the program, so it is a reference
the compiler does not share. `vm` runs one instruction per step. What the system knows of
names of hosts and services are the constants `Hosts` and `Services`; other names raise, as
do a jump that assembly finds longer than `MaxOffset` (255) and a scratch cell beyond
`ScratchCells` (16). `to_fprog` keeps the lower bits of a jump, as `c_uint8` does.

**Variants.** Definitions introduced as variants (`CheckOpenThenTryAgain`,
`SliceEven`, ...) are mistakes a programmer could make in the definition
that follows. No specification uses them; they serve to show that each property
notices the mistake.

## 3. Runs

| Run | Result | Shows |
|---|---|---|
| `port_scan` | holds | `TypeOK`, `OneVerdict`, `NoPortLost`, `ReportedOnce`, `ServicesAlign`, `ReportedIsFinal`, `LedgerKept`, `Termination` |
| `port_scan_race` | `ServicesMatchPorts` fails | with banners and two threads a service is printed beside another port |
| `host_discovery` | holds | `TypeOK`, `AnsweringHostsListed`, `OnlyHostsFound`, `HostListedOnce`, `UpIsNotShownDown`, `DiscoveryEnds` |
| `host_discovery_ack` | `CountedHostsListed` fails | an ACK ping with `--ping-port` counts every host and lists none |
| `flag_scan` | holds | `TypeOK`, `OneVerdict`, `ServicesAccountedFor`, `LedgerKept`, `Termination` |
| `idle_scan` | holds | `OneVerdict`, `ClosedIsNotOpen`, `SoleWorkerExact`, `LedgerKept` |
| `session` | holds | `TargetsAreMeant`, `PortsAreMeant`, `ProfileRestores`, `FoundIsReported` |
| `session_full_ranges` | `FullRangesAreMeant` fails | a range between two whole addresses is dropped |
| `spider` | holds | `TypeOK`, `AskedOnce`, `OverrunBounded`, `DepthIsAPath`, `NothingForgotten`, `Ends` |
| `capture` | holds | `SavedIsRead`, `CutIsPrefix`, `StopsEnd` |
| `bpf_filter` | holds | `ParsedAsWritten`, `WellFormed`, `VerdictIsMeaning`, `OptimizerKeepsVerdicts` |
| `bpf_not_tcp` | `EveryVerdictIsMeaning` fails | "not tcp" accepts a TCP frame over IPv6 |

Each property is stated in words above its definition. The four failing runs are
disagreements between the code and what the repository says about it; they are
described in `PROJECT.json` under `findings`, with both places quoted.

**Bounds of the scans.** One run has at most two or three threads, two or three targets,
three ports and two attempts. Two threads already give every order of two appends, and
three show that nothing depends on there being two; two ports of one target are the
least that can be paired wrongly, and two attempts the least where an attempt
follows an exception. Repeated ports and repeated targets appear as such (`Twice`,
`NoRoot`). One banner text is enough to meet the clean-up that tells banners
apart by text. There is no symmetry: address and port names are few, and the
larger part of the state is in the threads. No counter is unbounded in the code
that is modelled, so no guard had to be added: the lists grow by a bounded number
of entries per job.

**Bounds of the rest.**

* `idle_scan`: identifiers wrap at `IdSpace = 32` and start three below it, so that every
  scan wraps; no scan of the instance sends 32 packets between two probes, as none sends
  65536 in the code. Ports are split over two zombies evenly, unevenly and with
  fewer ports than zombies.
* `session`: sixteen addresses of two digits in base 4 instead of four of eight bits, and
  a limit of 15 hosts per expansion instead of 65536, so that an expansion meets,
  stays below and passes the limit; every prefix, ranges in and out of order and in
  and out of bounds, each item alone and in pairs, each kind of exclusion.
* `spider`: a diamond, a detour that reaches one page at two depths, and all 512 webs of
  three pages; one to three workers; `max_pages` of 0, below and above the number of pages.
* `capture`: frames of three and four bytes, so that one is padded in pcapng and, with a
  `PCAP_SNAPLEN` of 3, the other is cut in pcap, and a foreign one; two frames (`MaxFrames`) and two signals (`MaxSignals`: one is handled, the
  second strikes the handler); pcap and pcapng in both byte orders and lbn in its one; and a file may be cut at
  every single byte.
* `bpf_filter`: 355 filters, each kind of node alone, under `not`, and joined with each
  kind by `and` and `or`, against 14 frames on both sides of every test (IPv4, IPv6,
  fragments, long headers, one and two tags, other protocols, cut frames). Each is written
  twice, with parentheses only where the grammar needs them and with a pair around every
  operand, so that a parenthesis of arithmetic also comes first and inside another
  (`(ip[0] & 0xf) * 4 > 20`, which the parser reads by going back). `MaxOffset` is 27
  and `ScratchCells` is 2: some filters of the run then pass these limits, in assembly or in
  the optimiser, while the others stay within.

**Fairness.** `FairSpec` assumes weak fairness of the main thread and of every
worker separately, and nothing of the peers. This is what the program has: the
operating system schedules each thread; every call that waits (`sr1`,
`connect_ex`, `Banner.grab`, `srp`) carries a timeout and comes back with
something, if only with nothing; the lock is held for list appends only. No
particular answer is ever assumed. In `Spider` the worker that handles a page is fair as
`requests.get` has a timeout. In `Capture` the program is fair because `recv_one` comes back
after a quarter of a second and no other call waits; signals, frames and errors are
never assumed to come. `IdleScan`, `Session` and `BpfFilter` have no liveness property.
Deadlock is checked in every run but `capture`, whose program and replay really stop; a
finished or aborted scan stutters explicitly (`Terminated`).

**What the properties do not say.**

* An idle scan with several workers at one zombie, or with a zombie that sends packets of
  its own, may take a closed port for open: the differences add up. `ClosedIsNotOpen` is
  the half that holds; `SoleWorkerExact` is the whole for one worker and a silent zombie.
* `UpIsNotShownDown` leaves out `CallsGetLost`: with `-Rc` and several threads, a nested TCP
  discovery whose call for a host raised may call that host down while another
  thread has announced its ICMP answer and not yet counted it.
* `HostListedOnce` is about discoveries that guard the list or have one call per host. An
  ACK ping with several threads looks and appends in two steps; an ICMP, ARP or NDP ping
  lists a host as often as it was given (`-rff` reads the lines of a file as they are);
  and a ping scan of several methods lists again who was listed by an earlier ICMP one.
* `OverrunBounded` is what the spider keeps of `--mxp`, "Maximum pages to
  crawl": the calls in flight when the limit is met still add their pages, fewer than the
  pool has workers.
* `TargetsAreMeant` does not ask that full ranges (`192.168.1.1-192.168.1.254`) be scanned
  or excluded; `FullRangesAreMeant` does, and fails. The docstring of `CIDR.py` (line 20)
  lists the form, but the branch for it asks for seven dots (line 218), which two addresses
  do not have, and the item is dropped as an unknown host. An excluded address is scanned
  if it was asked for by name: names are resolved after the exclusion.
* The service a banner named is not always printed. Without privileges, or for a loopback
  target, `loopback_scan_handler` first records the port with the service of the table
  (531) and then grabs the banner, which records it again; the clean-up (326-337) keeps the
  first entry. README.md:84 promises "Banner Grabbing for service detection". `ServicesAlign`
  holds all the same: the service printed is one found for the port.
* `ProfileRestores` leaves out `max_retries`: its default is a number, so the loaded value
  never replaces it; the same holds for `interval`, which is not modelled.
* `VerdictIsMeaning` is about filters that are `Regular`. The compiler remembers that
  a check (of the EtherType, of a transport, of the header length) stands to the left and
  leaves it out on the right. Under `and` the check held; to the right of `or`, or under
  `not`, it need not have, and the program loads from the wrong place. Besides, `proto 6`
  without a protocol before it never tests the 6, and a bare transport protocol or `proto ip`
  ends without a jump and runs into whatever comes next (`bpf_not_tcp`). `Regular` names the
  filters without these; of the others the run still shows that they parse,
  that their programs are well formed and that the optimiser keeps their verdicts.
* `WellFormed` has an exception, `LeadsOn`. Assembly refuses a conditional jump longer than
  255, but `_thread_jumps` (`Peephole.py` 137-148) leads jumps on without asking their
  length, also those written as a literal 0 in front of an unconditional jump, which assembly
  does not follow. In a long chain (`net ::/0 or ...`) the result passes 255 and `to_fprog`
  keeps its lower 8 bits, although Fix 13 of the README of LightBPF (755-757) says that such
  offsets no longer overflow silently. The run has such filters. `VerdictIsMeaning` leaves
  them out (`Fits`), and without the two exceptions both properties fail.
* `SavedIsRead` is about pcap, pcapng and lbn files of captures that end by themselves or by
  one signal, and of a packet longer than 65535 bytes it asks in pcap for the first 65535
  only (`Held`). A second signal
  while the handler saves loses the save. A frame whose dissection raises ends the
  capture without one. When the disk is full the result of writing pcap and lbn is
  not looked at, and "Saved n packets" is printed all the same. A signal between the two
  steps of `PcapngWriter.close` closes the file a second time, at which the process may crash.
* `CutIsPrefix`: of a cut pcap or lbn file both readers give the packets that are whole. Of a
  cut pcapng file `replay` does, and then raises, but `LightSniff -r` gives none, since it
  takes `list()` of a reader that raises. lbn keeps no link type and is read as Ethernet.
* `StopsEnd` says nothing of a signal that strikes while a frame is handled: a bare `except:`
  may take it, and with `-c 0` the capture then goes on until it is told again. The panel
  kills it after three seconds if it can; this is modelled (`PanelKill`) and not assumed.
* `StopsEnd` has a replay stop only if the file has a packet: with `loop=0` an
  empty file is read again and again, and `stop_event` is looked at once per packet, though
  the docstring says that the replay "stops as soon as stop_event.is_set()".
* A flag scan records answers in lists that its report does not print (a SYN-ACK to an ACK
  scan; the null, FIN, xmas, maimon and fdd kinds). `LedgerKept` says that the port has
  a verdict, not that the user sees it. The idle scan has the lists its report prints in
  `Printed`, and its ledger counts only those.

## 4. Proofs

Every theorem holds for all values of the constants that satisfy the assumption of its
module (`ScanAssumption`, `DiscoveryAssumption`, `CrawlAssumption`, `ParserAssumption`,
`SessionAssumption`; `FramesAssumption`, `LinksAssumption` and `BoundsAssumption` of
`Capture`): any set of command lines, any number of threads, targets, ports and
retries, any web, any frames. The assumptions give the constants their types; that of
`IdleScan` says besides that there are more than two identifiers, that of `TargetParser`
that the two lists of usual ports hold ports, and those of `Capture` that a frame is bytes
and no longer than the reader of pcapng takes (`PCAPNG_MAX_PACKET`, 64 MiB, far above what a
link delivers), that a frame either passes the MAC
filter or does not, that a link type is one byte and not zero, and that fewer than 2^32 frames
arrive, which is how far lbn counts. The invariants below were checked by TLC before they
were proved.

**`TargetResults_proofs`, sequences.** What the library's `FlattenSeq` and a shuffle by `SetToSeqs` contain.
`FlattenSeq` is a recursive function; that it exists and what it contains is an induction
over the length, which is done without an operator as parameter: `CountUp` says that a set
of numbers which has 0 and with every number the next has them all, and each induction
is about the set of the lengths for which its claim holds.

**`TargetResults_proofs`, records.** What an append and the clean-up do to a record. The central
facts: the clean-up gives a record back (`SyncAndDeduplicateType`) that names no port twice
(`SyncClean`), leaves such a record alone (`SyncFixed`), loses no port if every list of
services is as long as its list of ports (`SyncKeeps`; the `zip` of the code stops at the
shorter of the two), and keeps services beside their ports (`SyncAligned`). The order of
the kept positions is about the library's `Cardinality` and proved with `FiniteSetTheorems`.

**`PortScan_proofs`.**

| Theorem | Argument |
|---|---|
| `TypeCorrect` | `TypeOK` is inductive; a step has its own lemma in each of the seventeen actions of a worker |
| `OneVerdictHolds` | `VerdictInv`: no two threads hold the same job (`Apart`), and for a port with one job (`JobVerdict`) nothing is recorded before the job is taken, nor while its thread may still settle it; at any later label it stands in `open_ports` or nowhere |
| `ReportedIsFinalHolds`, `ReportedOnceHolds` | `Quiet` (all threads are idle once anything is printed) and `ReportedClean` (what was printed was normalised): a target that is listed twice is normalised twice, and `SyncFixed` says that the second time changes nothing |
| `NoPortLostHolds` | `Lengths`: a list of ports is longer than its list of services by no more than the threads between the two appends (`Naming`, a cardinality), so that no list is too short when the report begins; `Settled`: a job that was taken is held by a thread, has raised, or has a verdict |
| `ServicesAlignHolds` | `Beside`: the lists are twins, but for the list of open ports of the target whose banner is being read by the only thread |
| `LedgerKeptHolds` | every step is one of the ledger or a stutter: the steps of a worker give a verdict to the key of its job or to none, which is pending; `LedgerPhase` relates the phases |

`OneVerdict` is not inductive: it does not say what a thread between two steps has recorded
already. Its hypothesis, that no exception after an open answer may be retried, is not a
convenience: `_tcp_scan` records the open port and then sends a RST in the same `try`, and
if sending raises with attempts left it probes again. A second, different answer is
then recorded as well.

**`FlagScan_proofs`.** `TypeCorrect`, `OneVerdictHolds`, `LedgerKeptHolds` and
`ServicesAccountedForHolds` along the same lines; `Raised` says that only a scan that may
raise gives up. The last one needs more, since a port and its service are appended in two
sections with other threads in between: `Accounted` says that the ports of a list are those of
its services and those whose service is on its way, `Singly` that none is there twice;
together with `Lengths` the two lists have equal content when all calls returned. With one
thread they are twins (`Beside`). The theorems have the hypothesis `PortsOnly`, that a
cookie scan does not raise: `SCTP_cookie_echo_scan` then appends the name of a service to the
list of ports (line 1700 of `LightEngine.py`), which is no longer a list of ports.

**`HostDiscovery_proofs`.**

| Theorem | Argument |
|---|---|
| `TypeCorrect` | `TypeInv` adds `Control`: which labels a method has, that no thread of a pool is busy unless the thread that opened the pool waits for it, and that no pool took more jobs than its method has. Without the second, a nested pool that starts again would reset `taken` under a busy thread |
| `OnlyHostsFoundHolds` | `FoundInv`: what a call in progress knows of its target. At "append", and at "read", "write" and "check" for an answer that was up, the host answered; a host counted up answered or `-Rc` is on |
| `AnsweringHostsListedHolds` | `AnswerInv`: a host that answered is listed, has probes against it, waits for the verdict of the IP ping (`Pending`), or is in the hands of a call that goes on to list it (`Coming`). No exception strikes such a call but in an ACK ping of chosen ports; and without a pool, where an exception ends all calls, `SoleThread` says that there is no other |
| `HostListedOnceHolds` | `OnceInv`: no job is held twice (`Distinct`), and a call that will list its host without another look, or has still to begin, finds it absent (`Absent`, `Untaken`). With one call per host the others are for other hosts; with one thread nobody comes between the look and the append |
| `UpIsNotShownDownHolds` | `UpInv`: a host called up is counted, or an ICMP ping is about to count it (`Counting`), or the method calls nobody down; and every job a nested pool took is for a host it counted or is held by its thread (`Served`), so that when it calls hosts down it has counted them all |

That counts never fall back to zero is `OrdinaryAnswered`: racing threads write what they
read plus one, which is positive whatever was lost.

**`Spider_proofs`.**

| Theorem | Argument |
|---|---|
| `TypeCorrect` | `Control`: what the main thread knows at each label; `Discard` moves the calls behind the discarded one, and the index goes on at the same place |
| `AskedOnceHolds` | `OneCall`: a link that waits is not in flight, each call has an address of its own, and a call that still asks is the only one whose address is not in `visited`. The main thread reads `visited`, the queue and the futures one after the other, but a worker moves an address from futures to `visited` only, which it looks at first |
| `OverrunHolds` | `Bounded`: pages found plus calls that still ask are fewer than `max_pages` plus the pool; the test of `Fill` was true when the last call was submitted |
| `DepthHolds` | `Paths`: all that waits, is in flight or was found is the start or a link of a page found one step nearer |
| `NothingForgottenHolds` | `Remembered`: each link of a page found is tried, waits, is in flight (`Kept`), or is still to be looked at by the main thread or owed by a call not yet discarded (`Owed`) |

**`IdleScan_proofs`.**

| Theorem | Argument |
|---|---|
| `TypeCorrect` | `TypeOK` and `Stage`: what each phase leaves alone, so that no thread is busy before the jobs are known or after the report began |
| `OneVerdictHolds` | the slices of different zombies have no port in common (`zombie_ports`, by arithmetic on their bounds), hence no two jobs are for the same port of the same target; then as for `FlagScan`, for the list of jobs the split made |
| `LedgerKeptHolds` | the slices leave no port out, the last zombie getting the remainder and, with more zombies than ports, everything; `Settled` and `Lengths` as for port scans. Its hypothesis is that no zombie is named twice: `zombie_ports` is a dictionary, so of two slices with the same name only the last is scanned, and the ports of the first stand in no list |
| `SoleWorkerExactHolds` | `SoloInv`: while the only thread is between its two probes, the counter of its zombie is what the first probe read, plus one, modulo `IdSpace`, once the zombie has answered the SYN-ACK of an open port (`Exact`); no other SYN-ACK is due at any zombie. More than two identifiers are needed for the two differences to differ |
| `ClosedIsNotOpenHolds` | `WaryInv`: between its two probes a thread is some number `k` of packets behind its zombie (`Lag`), at least one if its port is open and the SYN-ACK has been answered, and `k` plus what the zombie may still send (`Budget`: answers to probes and SYN-ACKs not yet spent, and its chatter) never exceeds `Traffic`. The theorem is `Spec => [](Traffic < IdSpace => ClosedIsNotOpen)`, where `Traffic` is three packets for each attempt of each job, plus the chatter: the counter then does not come round to where it was |

The hypothesis `Traffic < IdSpace` is needed: the difference is taken modulo `IdSpace`, and
a zombie that sends as many packets as there are identifiers (65536) between two probes makes
an open port look closed. `Traffic` counts the packets of the whole scan, as a thread may be
held up between its probes for as long as the others run; the instance of the run satisfies it.


**`Session_proofs`.**

| Theorem | Argument |
|---|---|
| `PortsAreMeantHolds` | `PortsMeant`: the ports of a list of items are those of its valid ones (`ParsedPorts`, by flattening their ranges), or the usual ones if there are none. `ListsInv`: the list scanned is that of the options the run works with, which loading, `--agressive` and a file of ports changed before; a shuffle keeps its content |
| `ProfileRestoresHolds` | `OptionsInv`: the file is what the first run's options leave of themselves (`Settings`) until the second run saves. `LoadRestores`: an option that is not written has a default that means "not given", so that the new run's own default is the same value; all but `max_retries`, whose default is a number. `Restored` carries this through `ParsePorts`, which adds nothing without a file of ports; equal options give equal targets and ports |
| `FoundIsReportedHolds` | `FoundInv`: whatever the discovery left of the records, `initialize_target_results` puts a fresh one for every listed target, so that the scan has lists to append to and all of them are judged before the report |

**`Capture_proofs`.** The files first, without any state, then the capture.

| Step | Argument |
|---|---|
| numbers (`NumberBytes`, `HoldsNumber`) | four bytes written in either order are the number they were written from, for every number below 2^32 |
| layout (`Holds`, `Layout`, `FlattenLayout`, `CutLayout`) | a file that holds `w` whole blocks and `part` bytes of the next has each block at the sum of the lengths before it; by induction over the blocks, on a set of lengths |
| places (`ComingExists`, `PlacesAre`) | the recursion of a reader that only goes forward and stops at the end of the file is well founded, so the function exists; if it steps from block to block and stays where the last one is cut, the places it comes to are the beginnings of the whole blocks |
| the formats | for pcap, pcapng and lbn, compressed or not: that the header tells the reader the order; that a whole block sends it to the next, and one that was cut, at whatever byte, does not; that what it takes out of a block is the packet that was put in, in pcap its first `PCAP_SNAPLEN` bytes. `uncompress` undoes `compress2` and `crc32` is one function for both sides: nothing else is known of zlib |
| `BlocksRead` | the four formats together: of any packets pcapng takes, a cut file is read as the first of them, and a whole file as all of them with their link type, each as far as its format keeps it (`Held`); by `LightSniff -r`, which may find nothing, and by `replay` |
| `CapInvHolds` | `CapInv`: `TypeOK`; `Kept`, that no more frames are kept than were captured; `OnDisk`, that what is on disk is a number of whole blocks and part of the next, nothing before saving starts, that an open pcapng writer has taken no more blocks than there are, and that a file is whole once it is closed or the outcome is "saved" |
| `CutIsPrefixHolds`, `SavedIsReadHolds` | `CapInv` says that `Contents` is laid out in blocks of `packets`, all of them when the outcome is "saved"; the rest is `BlocksRead` |

Neither property is inductive: they speak of a capture that is over, and what a kill leaves
depends on the block at which the writer was, and on nothing having been written while packets
were still added. The invariant does not mention signals, so it holds wherever one strikes:
before saving, in the middle of it, or behind it.

**Only model checked.** Liveness (`Termination`,
`DiscoveryEnds`, `Ends`, `StopsEnd`): the prover does no reasoning about fairness and
`ENABLED`. `BpfParser`, `BpfCompiler` and `BpfFilter`: their recursive operators are out of
the prover's reach. `TargetsAreMeant`: the size of a network is a power of two with a variable
exponent, and its combinations are counted as a product, of both of which the provers know
nothing.

## 5. What is left out, and why

* Contents of packets, decoys, fragments, timing, the wording of the output: no
  verdict depends on them in this code.
* `--max-retries 0`, with which a scan reports nothing; the assumption
  `max_retries \in Nat \ {0}` names it.
* OS fingerprints and firewall lists in the record of a target.
* An exception raised by `service_detection` or by printing.
* An interrupt of a scan by the user (that of a capture is modelled).
* A cookie scan whose last attempt raises puts the name of a service into the list
  of ports. The model does so too (`GiveUp`), which contradicts `TypeOK`; the
  passing run therefore lets no attempt of a cookie scan raise.
* FTP bounce scan: it announces the port of a listener of its own in every `PORT` command,
  so its verdicts do not depend on the ports scanned, and there is nothing to state.
* `-Pn -Rc` starts a second, TCP discovery when the first, ICMP one raises
  (`_handle_no_ping`, 2562-2573): it is a discovery of its own, whose list begins with what
  the first one left.
* The daemon loop, saved output, and the options of `args_parse` that only choose wording.
  IPv6 networks; `resolve_ipv4`.
* Of filters: how a name is looked up (`Hosts` and `Services` say what is found), the radio
  link types, the disassembler and the system calls that install a program.
* The hexadecimal text that `-w` writes for `.lhex` and `.hex` and `-r` reads by its suffix
  (`LightSniff.py` 945-946, 764-765): no property of `Capture` is about it.
* lbn version 1.0 (it guesses four times the size of compressed data), the streams
  `PcapWriteStream` and `LbnWriteStream`, whose `write` begins the file anew each time while
  `len()` adds up, as their tests expect; the time limit of `Sniffer`; statistics.
* The panels: Start, Stop and close are one handler each. What
  happens between them (queued signals, a worker deleted in its own signal) is decided by
  Qt. Stop of the capture panel is in `Capture`.
* `firewall_ase`, `LightDiff`, `LightSave`, OS fingerprints: thresholds on lengths, set
  difference, sums of weights over data, and text formats; one operator each, and no
  property but the operator itself.
* Protocol layers, packet dressing, interfaces, installation: bytes in and out of calls
  to the system, without state that outlives a call.

Much of the repository is tables and layout: port and service tables (`Services.py`),
fingerprints, help texts, widgets, and field-by-field packing of protocol headers
(`eapol.py`, `wlan.py`). They have no control flow to model, and a definition that stood for
them would only repeat them; the share of the source that is modelled is therefore small
although the parts with concurrency, failure and parsing are covered.

## 6. Plan

Done: all modules of the table, and the theorems above.

Beyond the reach of the provers used here: `TargetsAreMeant`, for which it needs facts about
powers of two and about the size of products; the compiler of filters, whose recursive
operators would have to become recursive functions over trees first; and liveness.

Runs are few on purpose: one for each module's promises and one per disagreement
with the documentation.
