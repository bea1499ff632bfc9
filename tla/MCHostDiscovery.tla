--------------------------- MODULE MCHostDiscovery ---------------------------
(* Instances of HostDiscovery for TLC: the discoveries the .cfg files choose. *)
EXTENDS HostDiscovery

CONSTANTS near, far, local   \* three addresses, the last one a loopback

\* The discovery the others vary: two targets, two threads.
Echo == [ methods |-> <<"icmp">>, recursively |-> FALSE, ping_port |-> FALSE,
          ports |-> 1, max_threads |-> 2, targets |-> <<near, far>>, raise |-> TRUE ]

By(m)  == [Echo EXCEPT !.methods = <<m>>, !.ports = 2]
One(m) == [By(m) EXCEPT !.targets = <<near>>]

\* Every method on two targets, and on a single one.
EachMethod == {By(m) : m \in Methods} \cup {One(m) : m \in Methods}

\* Two workers, each of which may start a TCP discovery with two threads.
Recursive  == [Echo EXCEPT !.recursively = TRUE, !.raise = FALSE]
\* A nested call may raise, as another worker has just called its host up.
Lossy      == [Recursive EXCEPT !.raise = TRUE]
Recursive6 == [Recursive EXCEPT !.methods = <<"icmpv6">>]
\* The same in one thread, where an exception ends everything.
RecursiveInline == [Recursive EXCEPT !.max_threads = 1, !.raise = TRUE,
                                     !.targets = <<near, local>>]

\* A loopback target next to another one, two ports each.
Local == [By("syn") EXCEPT !.targets = <<local, near>>]

\* ACK pings of chosen ports, and every port in one thread.
AckChosen == [By("ack") EXCEPT !.ping_port = TRUE, !.ports = 1]
AckInline == [By("ack") EXCEPT !.max_threads = 1]

\* Two lines of a file of targets name the same host.
Twice == {[By(m) EXCEPT !.targets = <<near, near>>, !.ports = 1] : m \in {"tcp", "ip"}}

\* -st PING: one method after the other on the same list.
Ping == {[Echo EXCEPT !.methods = m, !.targets = <<near>>] : m \in PingScans}

MCDiscoveries == EachMethod \cup Twice \cup Ping \cup
  {Recursive, Lossy, Recursive6, RecursiveInline, Local, AckChosen, AckInline}

MCAckChosen == {AckChosen}
=============================================================================
