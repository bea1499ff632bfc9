----------------------------- MODULE MCPortScan -----------------------------
(* Instances of PortScan for TLC: the scans the .cfg files choose from.      *)
EXTENDS PortScan

CONSTANTS remote, other, local   \* three addresses, the last one a loopback

\* The scan the others vary: one port of one target, probed by two threads.
Plain == [ mode |-> "syn", no_root |-> FALSE, banner |-> FALSE,
           max_retries |-> 1, max_threads |-> 2,
           targets |-> <<remote>>, targetss |-> <<remote>>,
           ports_to_scan |-> <<80>>, faults |-> {} ]

\* Banners grabbed on two threads, one target probed and one connected to, every
\* call that an attempt makes may raise.
Pooled == [Plain EXCEPT !.banner = TRUE, !.targetss = <<remote, local>>,
                        !.ports_to_scan = <<22, 80>>,
                        !.faults = {"socket", "probe", "post"}]

\* Two attempts; the retry after an exception in between.
Retried == [Plain EXCEPT !.mode = "tcp", !.max_retries = 2,
                         !.targetss = <<remote, other>>,
                         !.ports_to_scan = <<22, 80>>, !.faults = {"probe"}]
RetriedOpen == [Retried EXCEPT !.ports_to_scan = <<80>>, !.banner = TRUE,
                               !.faults = {"grab", "post"}]

\* UDP, three threads on one target.
Udp == [Plain EXCEPT !.mode = "udp", !.banner = TRUE, !.max_retries = 2,
                     !.max_threads = 3, !.ports_to_scan = <<22, 80, 443>>,
                     !.faults = {"probe"}]

\* A loopback target that TCP host discovery listed once per port it tried.
Twice == [Plain EXCEPT !.banner = TRUE, !.targetss = <<local, local>>,
                       !.ports_to_scan = <<22, 80>>]

\* --port 80,80 without privileges, sockets may run out.
NoRoot == [Plain EXCEPT !.no_root = TRUE, !.ports_to_scan = <<80, 80>>,
                        !.targetss = <<remote, other>>, !.faults = {"socket"}]

\* One thread scans every target given and reports the ones found up.
InOneThread ==
  [Plain EXCEPT !.max_threads = 1, !.banner = TRUE, !.max_retries = 2,
                !.targets = <<remote, local>>, !.ports_to_scan = <<22, 80>>,
                !.faults = {"socket", "probe", "post"}]

MCScans == {Pooled, Retried, RetriedOpen, Udp, Twice, NoRoot, InOneThread}

\* Two open ports of one target, banners grabbed on two threads.
MCRace == {[Plain EXCEPT !.banner = TRUE, !.ports_to_scan = <<22, 80>>]}
=============================================================================
