--------------------------- MODULE TargetResults ---------------------------
(***************************************************************************)
(* The record Lightscan keeps per target (self.target_results[target]):    *)
(* for every bucket a list of ports and a parallel list of services, and   *)
(* the parallel lists banners / banners_ports.  Nothing ties the entries   *)
(* of two parallel lists together but their positions.                     *)
(*                                                                         *)
(* Operators only: the scans of PortScan and FlagScan write this record,   *)
(* the report of ReportTarget normalises it.                               *)
(***************************************************************************)
EXTENDS Integers, Sequences, FiniteSets

CONSTANTS Ports,    \* port numbers, or IP protocol numbers
          Texts     \* banner texts a server may send

\* PORT_TO_SERVICES: bucket -> key of its parallel list of services or names.
\* PORT_BUCKETS of Lightscan.py is the same without the protocols.
PORT_TO_SERVICES ==
  [ open_ports              |-> "opened_ports_services",
    closed_ports            |-> "closed_ports_services",
    filtered_ports          |-> "filtered_ports_services",
    open_filtered_ports     |-> "open_filtered_ports_services",
    null_ports              |-> "null_ports_services",
    fin_ports               |-> "fin_ports_services",
    defended_ports          |-> "defended_ports_services",
    undefended_ports        |-> "undefended_ports_services",
    unfiltered_ports        |-> "unfiltered_ports_services",
    closed_filtered_ports   |-> "closed_filtered_ports_services",
    open_protocols          |-> "open_protocols_names",
    closed_protocols        |-> "closed_protocols_names",
    filtered_protocols      |-> "filtered_protocols_names",
    open_filtered_protocols |-> "open_filtered_protocols_names" ]

Buckets == DOMAIN PORT_TO_SERVICES

\* The four buckets _sync_and_deduplicate_ports normalises.
SyncedBuckets ==
  {"open_ports", "closed_ports", "filtered_ports", "open_filtered_ports"}

\* What a service list holds: the name looked up in the table for a port, or
\* the one recognised in a banner that port sent.
Services == [port : Ports, by : {"table", "banner"}]
Table(p)  == [port |-> p, by |-> "table"]
Banner(p) == [port |-> p, by |-> "banner"]

Results == [ ports         : [Buckets -> Seq(Ports)],
             services      : [Buckets -> Seq(Services)],
             banners       : Seq(Texts),
             banners_ports : Seq(Ports) ]

initialize_target_results ==
  [ ports         |-> [b \in Buckets |-> <<>>],
    services      |-> [b \in Buckets |-> <<>>],
    banners       |-> <<>>,
    banners_ports |-> <<>> ]

(***************************************************************************)
(* The appends the scans are made of.                                      *)
(***************************************************************************)
AppendPort(r, b, p) ==
  [r EXCEPT !.ports[b] = Append(@, p)]
AppendService(r, b, s) ==
  [r EXCEPT !.services[b] = Append(@, s)]
AppendBanner(r, x, p) ==
  [r EXCEPT !.banners = Append(@, x), !.banners_ports = Append(@, p)]

Recorded(r, b) == {r.ports[b][i] : i \in DOMAIN r.ports[b]}

\* Variants named after a mistake are not part of the report: each is what a
\* plausible bug would make of the definition that follows it.
FirstSeenUnchecked(keys, values) == DOMAIN keys \cap DOMAIN values
FirstSeenOnlyOnce(keys, values) ==
  { i \in DOMAIN keys \cap DOMAIN values :
      \A j \in DOMAIN keys : keys[j] = keys[i] => j = i }

(***************************************************************************)
(* deduplicate_sync: walk the two lists with zip, which stops at the       *)
(* shorter one, and keep the pairs whose key was not seen before.          *)
(***************************************************************************)
FirstSeen(keys, values) ==
  { i \in DOMAIN keys \cap DOMAIN values :
      \A j \in DOMAIN keys : j < i => keys[j] # keys[i] }

\* The elements of a finite set of numbers in increasing order.
Rank(K, i)   == Cardinality({j \in K : j <= i})
InOrder(K)   == [k \in 1..Cardinality(K) |-> CHOOSE i \in K : Rank(K, i) = k]
At(s, index) == [k \in DOMAIN index |-> s[index[k]]]

Kept(keys, values) == InOrder(FirstSeen(keys, values))

SyncAndDeduplicateApart(r) ==
  [r EXCEPT !.ports = [b \in Buckets |-> At(r.ports[b], Kept(r.ports[b], r.services[b]))],
            !.services = [b \in Buckets |-> At(r.services[b], Kept(r.services[b], r.ports[b]))]]

\* _sync_and_deduplicate_ports; banners are told apart by their text.
SyncAndDeduplicate(r) ==
  LET kept == [b \in Buckets |-> Kept(r.ports[b], r.services[b])]
      texts == Kept(r.banners, r.banners_ports)
  IN  [ ports |-> [b \in Buckets |-> IF b \in SyncedBuckets
                                     THEN At(r.ports[b], kept[b])
                                     ELSE r.ports[b]],
        services |-> [b \in Buckets |-> IF b \in SyncedBuckets
                                        THEN At(r.services[b], kept[b])
                                        ELSE r.services[b]],
        banners |-> At(r.banners, texts),
        banners_ports |-> At(r.banners_ports, texts) ]
=============================================================================
