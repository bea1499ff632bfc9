---------------------------- MODULE TargetParser ----------------------------
(***************************************************************************)
(* What is scanned: TargetParser of LightPacket/utils/CIDR.py, from -T and *)
(* --exclude to the targets of a scan (target_parse of Lightscan.py), and  *)
(* from -p to its ports (_parse_int_list, _resolve_scan_list).             *)
(*                                                                         *)
(* An address is a number of Octets digits of OctetBits bits (in the code  *)
(* 4 of 8), the character classes of a string are the kind of an item: a   *)
(* dash, a slash and a backslash decide which expansion an item gets.      *)
(***************************************************************************)
EXTENDS SequencesExt

CONSTANTS Octets, OctetBits, \* the shape of an address
          MaxHosts,          \* max_hosts: the limit of one expansion
          Names,             \* names of hosts
          resolve_hostname,  \* the address of a name, or NoAddress
          listed_ending,     \* the names that end in one of HOST_EXTENSIONS
          odd_spelling,      \* the names the pattern of validate_hostname refuses
          NoAddress, Junk,   \* None, and a text that is no address and no name
          MaxPort,           \* 65535
          top_1000_ports, top_100_ports

Bits    == Octets * OctetBits
Octet   == 0 .. 2^OctetBits - 1
Address == 0 .. 2^Bits - 1

\* Ranges are written lo-hi; an octet that is no range has lo = hi.  Bounds may be out
\* of order or too large.
Bounds == [lo : 0 .. 2^OctetBits, hi : 0 .. 2^OctetBits]
Items == [kind : {"address"}, addr : Address]
         \cup [kind : {"name"}, name : Names]
         \cup [kind : {"cidr"}, addr : Address, prefix : 0 .. Bits + 1]
         \cup [kind : {"range"}, octets : [1..Octets -> Bounds]]
         \cup [kind : {"net"}, octets : [1..Octets -> Bounds], prefix : 0 .. Bits + 1]
         \cup [kind : {"full"}, from : Address, to : Address]
         \cup [kind : {"pair"}, from : Address, to : Address]
PortItems == [lo : Nat, hi : Nat]

ASSUME ParserAssumption ==
  /\ Octets \in Nat \ {0} /\ OctetBits \in Nat \ {0}
  /\ MaxHosts \in Nat /\ MaxPort \in Nat
  /\ resolve_hostname \in [Names -> Address \cup {NoAddress}]
  /\ listed_ending \subseteq Names \ odd_spelling
  /\ odd_spelling \subseteq Names
  /\ top_1000_ports \in Seq(1..MaxPort) /\ top_100_ports \in Seq(1..MaxPort)
  /\ NoAddress \notin Address \cup Names /\ Junk \notin Address \cup Names

Distinct(s) == FoldLeft(LAMBDA done, x : IF x \in ToSet(done) THEN done ELSE Append(done, x), <<>>, s)
UpTo(a, b)  == [i \in 1 .. (IF b < a THEN 0 ELSE b - a + 1) |-> a + i - 1]

-----------------------------------------------------------------------------
(* TargetParser *)

NetworkSize(prefix) == IF prefix <= Bits THEN 2^(Bits - prefix) ELSE 0

\* ip_network with strict=False takes the address as any of the network.
expand_cidr(addr, prefix) ==
  LET size == NetworkSize(prefix)
      first == addr - (addr % size)
  IN  IF prefix > Bits THEN <<>>
      ELSE IF prefix < Bits - 1 /\ size > MaxHosts THEN <<>>
      ELSE UpTo(first, first + size - 1)

Proper(octets) == \A o \in 1..Octets : octets[o].lo <= octets[o].hi /\ octets[o].hi \in Octet

\* A variant named after a mistake, not part of the parser: the end of a range is left out.
OptionsHalfOpen(bounds) == IF bounds.lo = bounds.hi THEN UpTo(bounds.lo, bounds.hi)
                           ELSE UpTo(bounds.lo, bounds.hi - 1)
Options(bounds) == UpTo(bounds.lo, bounds.hi)

\* itertools.product: the last octet moves fastest.
Product(octets) ==
  LET extend(addrs, o) ==
        FlattenSeq([ i \in DOMAIN addrs |->
          [ j \in DOMAIN Options(octets[o]) |-> (addrs[i] * (2^OctetBits)) + Options(octets[o])[j] ] ])
  IN  FoldLeft(extend, <<0>>, UpTo(1, Octets))

Combinations(octets) == FoldLeft(LAMBDA n, o : n * Len(Options(octets[o])), 1, UpTo(1, Octets))

\* A network for every combination; networks that coincide are listed again.
expand_network_range(octets, prefix) ==
  IF ~Proper(octets) \/ Combinations(octets) * NetworkSize(prefix) > MaxHosts THEN <<>>
  ELSE FlattenSeq([ i \in DOMAIN Product(octets) |-> expand_cidr(Product(octets)[i], prefix) ])

\* The branch for a full range asks for seven dots, and two addresses have six: the
\* text has too many parts for the branch of octets and is returned as it is, as is
\* one with a range out of bounds.
Dots == 2 * (Octets - 1)
expand_hyphen_range(item) ==
  CASE item.kind = "full" /\ Dots >= 2 * Octets - 1 ->
         IF item.to - item.from + 1 > MaxHosts THEN <<>> ELSE UpTo(item.from, item.to)
    [] item.kind = "pair" -> <<item.from, item.to>>
    [] item.kind = "range" /\ Proper(item.octets) ->
         IF Combinations(item.octets) > MaxHosts THEN <<>> ELSE Product(item.octets)
    [] OTHER -> <<Junk>>

Expand(item) ==
  CASE item.kind = "net"     -> expand_network_range(item.octets, item.prefix)
    [] item.kind = "cidr"    -> expand_cidr(item.addr, item.prefix)
    [] item.kind = "address" -> <<item.addr>>
    [] item.kind = "name"    -> <<item.name>>
    [] OTHER                 -> expand_hyphen_range(item)

\* Only a list with a comma is rid of what it repeats.
parse_multi_target(items) ==
  LET all == FlattenSeq([i \in DOMAIN items |-> Expand(items[i])])
  IN  IF Len(items) > 1 THEN Distinct(all) ELSE all

\* A name stays a name if its ending is listed or it can be resolved; an odd one is
\* replaced by its address.
Validated(target) ==
  CASE target = Junk            -> <<>>
    [] target \notin Names      -> <<target>>
    [] target \in listed_ending -> <<target>>
    [] resolve_hostname[target] = NoAddress -> <<>>
    [] target \in odd_spelling  -> <<resolve_hostname[target]>>
    [] OTHER                    -> <<target>>

parse_targets(items) ==
  LET targets == parse_multi_target(items)
  IN  FlattenSeq([i \in DOMAIN targets |-> Validated(targets[i])])

-----------------------------------------------------------------------------
(* target_parse *)

_resolve_target(target) ==
  CASE target \notin Names                      -> <<target>>
    [] resolve_hostname[target] = NoAddress     -> <<>>
    [] OTHER                                    -> <<resolve_hostname[target]>>

target_validation(targets) ==
  Distinct(FlattenSeq([i \in DOMAIN targets |-> _resolve_target(targets[i])]))

\* lines: what -T says, or the lines of the file of targets.  Targets are taken out
\* before names are resolved.
TargetsOf(lines, exclude) ==
  LET asked == FlattenSeq([i \in DOMAIN lines |-> parse_targets(lines[i])])
      excluded == ToSet(parse_targets(exclude))
  IN  target_validation(SelectSeq(asked, LAMBDA t : t \notin excluded))

-----------------------------------------------------------------------------
(* Ports *)

\* An item that is no number or range of ports is reported and skipped.
ValidPorts(item) == 1 <= item.lo /\ item.lo <= item.hi /\ item.hi <= MaxPort

_parse_int_list(spec) ==
  FlattenSeq([ i \in DOMAIN spec |->
    IF ValidPorts(spec[i]) THEN UpTo(spec[i].lo, spec[i].hi) ELSE <<>> ])

\* port_parse; the shuffled lists are in Session.  In the variant a list with one
\* wrong item is given up.
PortsOfStrict(spec, F) ==
  IF F THEN top_100_ports
  ELSE IF \E i \in DOMAIN spec : ~ValidPorts(spec[i]) THEN top_1000_ports
  ELSE IF _parse_int_list(spec) = <<>> THEN top_1000_ports
  ELSE _parse_int_list(spec)
PortsOf(spec, F) ==
  IF F THEN top_100_ports
  ELSE IF _parse_int_list(spec) = <<>> THEN top_1000_ports
  ELSE _parse_int_list(spec)

-----------------------------------------------------------------------------
(* The meaning of what is written, address by address *)

Digit(addr, o) == (addr \div 2^(OctetBits * (Octets - o))) % 2^OctetBits
InRange(addr, octets) == \A o \in 1..Octets : Digit(addr, o) \in octets[o].lo .. octets[o].hi
SameNetwork(x, y, prefix) == x \div 2^(Bits - prefix) = y \div 2^(Bits - prefix)

\* What an item is written for: a full range every address from its first to its last, as
\* the docstrings of TargetParser and expand_hyphen_range say.
Meaning(item) ==
  CASE item.kind = "address" -> {item.addr}
    [] item.kind = "pair"    -> {item.from, item.to}
    [] item.kind = "name"    -> {resolve_hostname[item.name]} \ {NoAddress}
    [] item.kind = "cidr"    -> {x \in Address : item.prefix <= Bits /\ SameNetwork(x, item.addr, item.prefix)}
    [] item.kind = "range"   -> {x \in Address : Proper(item.octets) /\ InRange(x, item.octets)}
    [] item.kind = "net"     -> {x \in Address : /\ Proper(item.octets) /\ item.prefix <= Bits
                                                /\ \E y \in Address : InRange(y, item.octets)
                                                                      /\ SameNetwork(x, y, item.prefix)}
    [] item.kind = "full"    -> item.from .. item.to

\* An item that names too many addresses is refused whole; the networks of a range of
\* networks are counted one by one, though they may coincide.
Refused(item) ==
  IF item.kind = "net"
  THEN Cardinality({x \in Address : InRange(x, item.octets)}) * NetworkSize(item.prefix) > MaxHosts
  ELSE Cardinality(Meaning(item)) > MaxHosts

Addresses(items) == UNION {Meaning(item) : item \in {i \in ToSet(items) : ~Refused(i)}}
Understood(items) == SelectSeq(items, LAMBDA item : item.kind # "full")
ByName(items)    == UNION {Meaning(item) : item \in {i \in ToSet(items) : i.kind = "name"}}
=============================================================================
