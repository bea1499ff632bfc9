------------------------------ MODULE MCIdleScan ------------------------------
(* Instances of IdleScan for TLC: the scans the .cfg files choose from.        *)
EXTENDS IdleScan

CONSTANTS near, far, z1, z2   \* two targets, two zombies; ports are 1, 2, 3

\* The scan the others vary: two threads, two ports of one target, one of them open,
\* and one zombie that sends a packet of its own.
Shared == [ banner |-> FALSE, max_retries |-> 1, max_threads |-> 2, version |-> 4, targetss |-> <<near>>,
            ports_to_scan |-> <<1, 2>>, zombie_ips |-> <<z1>>, open |-> {<<near, 1>>},
            chatter |-> 1, faults |-> {} ]

\* Three threads at one zombie.
Crowded == [Shared EXCEPT !.max_threads = 3, !.ports_to_scan = <<1, 2, 3>>, !.chatter = 0]

\* One thread and a silent zombie, for every choice of the open ports.
Sole(ports, zombies, open) ==
  [Shared EXCEPT !.max_threads = 1, !.chatter = 0, !.targetss = <<near, far>>,
                 !.ports_to_scan = ports, !.zombie_ips = zombies, !.open = open]
Soles == {Sole(<<1, 2, 3>>, <<z1, z2>>, o \X {1, 3} \cup {<<near, 2>>}) : o \in SUBSET {near, far}}
         \cup {Sole(<<1, 2>>, <<z1>>, o) : o \in SUBSET ({near, far} \X {1, 2})}

\* Two zombies, of which any may be silent, and a port for one of them only.
Faulty == [Shared EXCEPT !.max_retries = 2, !.chatter = 0, !.zombie_ips = <<z1, z2>>,
                         !.faults = Faults]
Raising == [Faulty EXCEPT !.banner = TRUE, !.faults = {"raise"}, !.zombie_ips = <<z1>>]
Fewer   == [Faulty EXCEPT !.ports_to_scan = <<1>>]
Twice   == [Faulty EXCEPT !.targetss = <<near, near>>, !.ports_to_scan = <<1>>, !.zombie_ips = <<z1>>,
                          !.faults = {"lost", "late"}]
Sixth   == [Faulty EXCEPT !.version = 6, !.faults = {"lost"}]

MCScans == {Shared, Crowded, Faulty, Raising, Fewer, Twice, Sixth} \cup Soles
=============================================================================
