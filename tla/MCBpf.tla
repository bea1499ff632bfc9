-------------------------------- MODULE MCBpf --------------------------------
(***************************************************************************)
(* Filters and frames for BpfFilter: every kind of node, alone, negated    *)
(* and joined, and one frame on each side of every test a program makes.   *)
(***************************************************************************)
EXTENDS BpfFilter

On(kw, n, dir, proto)   == Keyword_(kw, n, 0, dir, proto)
V4(kind, word, masks) == [kind |-> kind, words |-> <<word>>, masks |-> masks]
Lan  == V4("ipv4", 167772161, <<>>)                                         \* 10.0.0.1
Far  == V4("ipv4", 134744072, <<>>)                                         \* 8.8.8.8
B    == V4("ipv4", -1408172031, <<>>)                                       \* 172.16.240.1
C    == V4("ipv4", -1062731775, <<>>)                                       \* 192.168.0.1
D    == V4("ipv4", -536870911, <<>>)                                        \* 224.0.0.1
Net  == V4("cidr4", 167772161, <<-256>>)                                    \* 10.0.0.1/24
Lan6 == [kind |-> "ipv6", words |-> <<536939960, 0, 0, 1>>, masks |-> <<>>] \* 2001:db8::1
Doc6 == [Lan6 EXCEPT !.kind = "cidr6", !.masks = <<Ones, 0, 0, 0>>]         \* 2001:db8::1/32
All6 == [Doc6 EXCEPT !.words = <<0, 0, 0, 0>>, !.masks = <<0, 0, 0, 0>>]    \* ::/0
Mac  == [kind |-> "mac", words |-> <<33554432, 3>>, masks |-> <<>>]         \* 02:00:00:00:00:03
Masked(a, m) == [Address("net", a, "src", "") EXCEPT !.mask = <<m>>]

Known_ == [http |-> 80, domain |-> 53]       \* names of ports
Looked == [router |-> <<167772161>>]         \* names of hosts

At_(proto, n, size) == Byte(proto, Number(n), size)
Op(l, op, r)        == BinaryOp(l, op, r)
Syn                 == Op(Op(Byte("tcp", Field("tcpflags"), 1), "&", Number(2)), "!=", Number(0))
Ttl                 == At_("ip", 8, 1)

Ethernets == {Protocol_(p) : p \in {"ip", "ip6", "arp", "ether"}}
Bares     == {Protocol_(p) : p \in {"tcp", "udp", "sctp", "icmp", "icmp6"}}
Ports ==
  { On("port", 80, "", ""), On("port", 80, "src", "tcp"), On("port", 80, "src and dst", "udp"),
    On("port", 80, "src or dst", ""), Keyword_("portrange", 80, 90, "dst", ""),
    Keyword_("portrange", 80, 90, "", "tcp"), Named("port", "http", "dst", "") }
Addressed ==
  { Address("host", Lan, "", ""), Address("host", Far, "src", ""), Address("net", Net, "src and dst", ""),
    Address("host", Lan6, "src or dst", ""), Address("net", Doc6, "dst", ""), Address("net", All6, "", ""),
    Address("host", Mac, "src", ""), Named("host", "router", "", ""), Masked(Lan, -65536) }
  \cup {Address("net", a, "dst", "") : a \in {Lan, B, C, D}}
Others ==
  { On("less", 60, "", ""), On("greater", 60, "", ""), On("broadcast", 0, "", ""),
    On("multicast", 0, "", ""), On("vlan", -1, "", ""), On("vlan", 5, "", ""),
    On("proto", 6, "", "ip"), On("proto", 6, "", "ip6"), On("proto", 2054, "", "ether"),
    Named("proto", "ip6", "", "ether"), Named("proto", "arp", "", ""), On("proto", 6, "", ""),
    On("mpls", -1, "", "") }
\* What the parser takes and the compiler does not.
Refused ==
  { Address("host", Net, "", ""), Address("net", Lan6, "", ""), Address("net", Mac, "", ""),
    Masked(Net, -256), On("net", 10, "", ""), Named("net", "router", "", ""),
    Named("host", "nobody", "", ""), Named("port", "nothing", "", ""), Named("proto", "tcp", "", "ip"),
    On("inbound", 0, "", ""), Op(Length, ">", Op(At_("ip", 0, 1), "/", Number(0))) }
Relations ==
  { Syn,
    Op(At_("tcp", 0, 2), "==", Number(80)),
    Op(At_("udp", 2, 2), ">=", At_("udp", 0, 2)),
    Op(Ttl, "<=", Number(64)),
    Op(Byte("icmp", Field("icmptype"), 1), "==", Number(0)),
    Op(At_("icmp6", 1, 1), "==", Number(80)),
    Op(At_("sctp", 0, 4), "!=", Number(0)),
    Op(At_("arp", 6, 2), "<", Number(2)),
    Op(Op(At_("ip6", 0, 1), "&", Number(240)), "==", Number(0)),
    Op(Length, ">", Op(Number(30), "*", Number(2))),
    Op(Op(Op(Length, "-", Number(14)), "-", Number(20)), "<", Op(Number(2), "+", Op(Ttl, ">>", Number(1)))),
    Op(Op(Ttl, "-", Op(Number(1), "-", Number(2))), "!=", Number(65)),
    Op(Byte("ether", Op(At_("ip", 0, 1), "&", Number(15)), 1), ">", Op(Length, "%", Ttl)),
    Op(Byte("tcp", Op(At_("ip", 8, 1), "/", Number(64)), 1), "==", Number(80)),
    Op(Op(Length, "^", Number(3)), "|", Number(1)),
    Op(Length, "&", At_("ether", 5, 1)),
    Op(At_("ip", 12, 4), "==", Literal("ipv4", <<167772161>>)) }

\* Filters that begin with a parenthesis of arithmetic, alone and nested.
Ihl    == Op(Op(Op(At_("ip", 0, 1), "&", Number(15)), "*", Number(4)), ">", Number(20))
Folded ==
  { Ihl,
    Op(Op(Op(Length, "+", Number(1)), "*", Number(2)), ">", Op(Op(Number(60), "|", Number(1)), "*", Number(2))),
    Op(Op(Op(Op(Op(Length, "-", Number(14)), "*", Number(2)), "+", Number(1)), "%", Number(64)), ">", Number(7)),
    Op(Op(Length, "|", Number(3)), "&", Number(64)) }

\* Where two scratch cells are enough, and where they are not.
Minus(n, f) == Op(Number(n), "-", f)
Cells ==
  { Op(Minus(90, Minus(1, Length)), ">", Number(9)),
    Op(Minus(90, Minus(1, Minus(2, Length))), ">", Number(9)),
    Op(Minus(90, Byte("tcp", Op(Ttl, "/", Number(64)), 1)), ">", Number(9)),
    Op(Minus(90, Minus(1, Byte("tcp", Op(Ttl, "/", Number(64)), 1))), ">", Number(9)) }

Atoms  == Ethernets \cup Bares \cup Ports \cup Addressed \cup Others \cup Relations \cup Folded
Nots   == {UnaryOp(f) : f \in Atoms}
Few    == { Protocol_("ip"), Protocol_("tcp"), On("port", 80, "", ""), Address("host", Lan, "", ""),
            Address("net", All6, "", ""), On("less", 60, "", ""), On("vlan", 5, "", ""), Syn, Ihl }
Pairs  == {Op(f, op, g) : f, g \in Few, op \in {"and", "or"}}
Deeper ==
  { UnaryOp(Op(f, op, g)) : f \in {Address("host", Lan, "src", ""), Protocol_("arp")},
                            g \in {On("port", 80, "", ""), On("less", 60, "", "")},
                            op \in {"and", "or"} }
  \cup { Op(Op(f, "or", g), "and", h) : f, g \in {Protocol_("arp"), On("less", 60, "", "")}, h \in Few }
  \cup { Op(f, "or", Op(g, "or", UnaryOp(Ttl))) : f, g \in {On("broadcast", 0, "", ""), Address("host", Lan6, "dst", "")} }

\* Chains as long as a conditional jump may lead, and longer: by what they are, or by
\* where the optimiser leads the jump at their head.
RECURSIVE Chain(_, _)
Chain(f, n) == IF n = 1 THEN f ELSE Op(Chain(f, n - 1), "or", f)
Chains == {Chain(Address("host", Lan6, "", ""), n) : n \in 1..3}
          \cup {Op(Address("net", All6, "", ""), "or", Chain(Address("host", Lan6, "", ""), 2))}

AllFilters == Atoms \cup Refused \cup Cells \cup Nots \cup Pairs \cup Deeper \cup Chains
NotTcp     == {UnaryOp(Protocol_("tcp"))}

One == [ tags |-> <<>>, type |-> IPV4, proto |-> 6, first |-> TRUE, ihl |-> 5,
         src |-> <<167772161>>, dst |-> <<134744072>>, sport |-> 80, dport |-> 90,
         flags |-> 2, to |-> <<2, 0, 0, 0, 0, 1>> ]
Six == [One EXCEPT !.type = IPV6, !.src = Lan6.words, !.dst = <<536939960, 0, 1, 2>>]

AllFrames ==
  { One, Six,
    [One EXCEPT !.sport = 9, !.dport = 80, !.flags = 16, !.src = <<134744072>>, !.dst = <<167772161>>],
    [One EXCEPT !.ihl = 6, !.dport = 80],
    [One EXCEPT !.first = FALSE],
    [One EXCEPT !.proto = 17, !.dport = 80, !.dst = <<167772162>>],
    [One EXCEPT !.proto = 17, !.sport = 91, !.dport = 79],
    [One EXCEPT !.proto = 1, !.to = <<255, 255, 255, 255, 255, 255>>],
    [One EXCEPT !.type = 2054, !.to = <<1, 0, 0, 0, 0, 1>>],
    [One EXCEPT !.tags = <<5>>],
    [One EXCEPT !.tags = <<6>>, !.proto = 17],
    [Six EXCEPT !.proto = 17, !.sport = 9, !.dport = 80],
    [Six EXCEPT !.proto = 58, !.src = <<536939960, 0, 0, 3>>],
    [Six EXCEPT !.tags = <<5>>] }
=============================================================================
