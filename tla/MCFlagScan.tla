------------------------------ MODULE MCFlagScan ------------------------------
(* Instances of FlagScan for TLC: the scans the .cfg files choose from.        *)
EXTENDS FlagScan

CONSTANTS near, far,       \* two addresses
          low, mid, high   \* three ports or protocols; model values, because
                           \* one scan writes a service into a list of ports

\* The scan the others vary: two targets and two ports, two threads, two
\* attempts that may raise.
Plain == [ kind |-> "custom", banner |-> FALSE, max_retries |-> 2, max_threads |-> 2,
           targetss |-> <<near, far>>, ports_to_scan |-> <<low, mid>>, raise |-> TRUE ]

\* One target, three ports, three threads, banners grabbed.
Crowded == [Plain EXCEPT !.banner = TRUE, !.max_threads = 3, !.max_retries = 1,
                         !.targetss = <<near>>, !.ports_to_scan = <<low, mid, high>>,
                         !.kind = "init"]

\* Two ports of one target, for each kind of scan.
Kind(k) == [Plain EXCEPT !.kind = k, !.targetss = <<near>>, !.ports_to_scan = <<low, mid>>]

\* A port named twice, and one thread.
Twice == [Kind("window") EXCEPT !.ports_to_scan = <<low, mid, low>>, !.raise = FALSE]
Alone == [Kind("fin") EXCEPT !.max_threads = 1, !.banner = TRUE]

\* A cookie scan whose last attempt raises is left out: it writes a service
\* among the ports, against TypeOK.
Settled(k) == IF k = "cookie" THEN [Kind(k) EXCEPT !.raise = FALSE] ELSE Kind(k)

MCScans == {Plain, Crowded, Twice, Alone} \cup {Settled(k) : k \in Kinds}

\* The kind of scan whose report prints fewest of the buckets Flag_Scan records in.
MCUnprinted == {Kind("ack")}
=============================================================================
