------------------------------ MODULE BpfCompiler ------------------------------
(***************************************************************************)
(* LightPacket/LightBPF/CompilerSet/Compiler.py: from the tree of a filter *)
(* to a program, for Ethernet frames (linktype 1).                         *)
(*                                                                         *)
(* A tree is a record whose field "node" names its class in Parser.py.     *)
(* Addresses are sequences of words with a sequence of masks: what         *)
(* inet_aton and ipaddress make of the text is left out.                   *)
(*                                                                         *)
(* compiler is the object: the code so far, the labels and scratch cells   *)
(* given out, and what it remembers of the filter to the left (EXPLICIT,   *)
(* sip, _parsed_upper and the offsets that vlan and mpls move).            *)
(***************************************************************************)
EXTENDS BpfMachine, SequencesExt

CONSTANTS MaxOffset,      \* the furthest a conditional jump leads: 255 in the source
          ScratchCells,   \* the cells M[0], M[1], ...: 16 in the source
          Services,       \* COMMON_SERVICES and what getservbyname knows: ports by name
          Hosts           \* what gethostbyname knows: words of IPv4 addresses by name

ASSUME LimitsAssumption == MaxOffset \in Nat /\ ScratchCells \in 0..16

\* Targets of a jump before assembly: a label is a positive number; Here is the
\* literal 0 of the source, Next a label placed right after the jump.
Here   == 0
Accept == -1
Reject == -2
Next_  == -3

IPV4 == 2048     \* 0x0800
IPV6 == 34525    \* 0x86DD

ETHERTYPE_MAP == [ip |-> IPV4, ip6 |-> IPV6, arp |-> 2054, rarp |-> 32821]
IP_PROTOCOLS  == [icmp |-> 1, igmp |-> 2, tcp |-> 6, udp |-> 17, sctp |-> 132]
_TRANSPORT_PROTO_NUM ==
  [tcp |-> 6, udp |-> 17, icmp |-> 1, sctp |-> 132, icmp6 |-> 58, igmp |-> 2]
FIELD_OFFSETS == [tcpflags |-> 13, icmptype |-> 0, icmpcode |-> 1]

New == [ code |-> <<>>, label |-> 0, scratch |-> 0, parsed_upper |-> FALSE,
         EXPLICIT |-> 0, sip |-> FALSE, vlans |-> 0, shims |-> 0, raised |-> FALSE ]

\* The offsets, 4 further for every vlan and, some of them, for every mpls.
E_P_OFFSET(c)     == 12 + 4 * (c.vlans + c.shims)
IPv4_FRAG(c)      == 20 + 4 * (c.vlans + c.shims)
IPv4_PROTO_OFF(c) == 23 + 4 * (c.vlans + c.shims)
VLAN_ID_OFF(c)    == 14 + 4 * c.vlans
IPv4_H_ST(c)      == 14 + 4 * c.vlans
IPv6_H_ST(c)      == 20 + 4 * c.vlans
IPv6_PROTO_OFF(c) == 20 + 4 * c.vlans
PORT_FIELD_SRC(c) == 14 + 4 * c.vlans
PORT_FIELD_DST(c) == 16 + 4 * c.vlans

Label(n)     == Insn("label", "", 0, "k", n, 0, 0)
Emit(c, s)   == [c EXCEPT !.code = @ \o s]
Fresh(c)     == [c EXCEPT !.label = @ + 1]
Raise(c)     == [c EXCEPT !.raised = TRUE]
Ethertype(c) == LdAbs(2, E_P_OFFSET(c))

-----------------------------------------------------------------------------
(* Addresses and ports: host, net, port and portrange test one field, both  *)
(* or either                                                                *)

Swapped(dir) == CASE dir = "src" -> "dst" [] dir = "dst" -> "src" [] OTHER -> dir

AllOnes(words) == [i \in DOMAIN words |-> Ones]

\* An address of several words with its masks; mac has a half word at its end.
Words(f, c, off, t, e) ==
  LET n == Len(f.words)
      nxt(i)  == IF i < n THEN Next_ ELSE t
      size(i) == IF f.kind = "mac" /\ i = n THEN 2 ELSE 4
      word(i) ==
        IF f.kind = "cidr6" /\ f.masks[i] = 0 THEN <<Ja(nxt(i))>>
        ELSE <<LdAbs(size(i), off + 4 * (i - 1))>>
             \o (IF f.masks[i] # Ones THEN <<Alu("&", "k", f.masks[i])>> ELSE <<>>)
             \o <<If("jeq", WAnd(f.words[i], f.masks[i]), nxt(i), e)>>
  IN  Emit(c, FlattenSeq([i \in 1..n |-> word(i)]))

\* The test of the one field at off.
FieldTest(f, c, off, t, e) ==
  CASE f.keyword = "port" ->
         Emit(c, <<LdInd(2, off), If("jeq", f.lo, t, e)>>)
    [] f.keyword = "portrange" ->
         Emit(c, <<LdInd(2, off), If("jge", f.lo, Next_, e), If("jgt", f.hi, e, t)>>)
    [] OTHER -> Words(f, c, off, t, e)

Directed(f, c, dir, src, dst, t, e) ==
  LET chk == c.label + 1
      second(t1, e1) == Emit(FieldTest(f, Fresh(c), src, t1, e1), <<Label(chk)>>)
  IN  CASE dir = "src" -> FieldTest(f, c, src, t, e)
        [] dir = "dst" -> FieldTest(f, c, dst, t, e)
        [] dir = "src and dst" -> FieldTest(f, second(chk, e), dst, t, e)
        [] OTHER -> FieldTest(f, second(t, chk), dst, t, e)

Guarded(c, type, e) == Emit(c, <<Ethertype(c), If("jeq", type, Here, e)>>)
Ipv4Test(c, f, t, e) == Directed(f, Guarded(c, IPV4, e), f.dir, 26, 30, t, e)
Ipv6Test(c, f, t, e) == Directed(f, Guarded(c, IPV6, e), f.dir, 22, 38, t, e)

\* _compile_host_filter: one address, which a name is looked up for.
HostFilter(c, f, t, e) ==
  LET words == IF f.kind = "name" THEN Hosts[f.name] ELSE f.words
      one   == [f EXCEPT !.words = words, !.masks = AllOnes(words)]
  IN  CASE f.kind = "ipv4" \/ (f.kind = "name" /\ f.name \in DOMAIN Hosts) -> Ipv4Test(c, one, t, e)
        [] f.kind = "ipv6" -> Ipv6Test(c, one, t, e)
        [] f.kind = "mac"  -> Directed(one, c, Swapped(f.dir), 0, 6, t, e)
        [] OTHER           -> Raise(c)

\* The mask of the class that the first number of an address is in.
Classful(word) ==
  CASE word >= 0           -> -16777216      \* below 128: 255.0.0.0
    [] word < -1073741824  -> -65536         \* below 192: 255.255.0.0
    [] word \in -1073741824 .. -536870913 -> -256
    [] OTHER               -> Ones

\* The masks of a net: the one after "mask", that of its class, or those of its prefix.
MasksOf(f) ==
  CASE f.mask # <<>> -> f.mask
    [] f.mask = <<>> /\ f.kind = "ipv4" -> <<Classful(f.words[1])>>
    [] OTHER -> f.masks

\* _compile_net_filter; ipaddress raises for a mask after anything but a plain address.
NetFilter(c, f, t, e) ==
  LET net == [f EXCEPT !.masks = MasksOf(f)]
  IN  CASE f.kind = "ipv4" \/ (f.kind = "cidr4" /\ f.mask = <<>>) -> Ipv4Test(c, net, t, e)
        [] f.kind = "cidr6" /\ f.mask = <<>> -> Ipv6Test(c, net, t, e)
        [] OTHER -> Raise(c)

-----------------------------------------------------------------------------
(* Transport protocols *)

FirstFragment(c, e) == <<LdAbs(2, IPv4_FRAG(c)), If("jset", 8191, e, Next_)>>

\* _compile_transport_ipv4, _compile_transport_ipv6: after a check of the ethertype
\* somewhere to the left.
Transport4(c, num, t, e) == Emit(c, <<LdAbs(1, IPv4_PROTO_OFF(c)), If("jeq", num, t, e)>>)
Transport6(c, num, t, e) ==
  Emit(c, << LdAbs(1, IPv6_PROTO_OFF(c)), If("jeq", num, t, Next_), If("jeq", 44, Next_, e),
             LdAbs(1, 54), If("jeq", num, t, e) >>)

\* _compile_dual_stack_transport, which ends without a jump to t.
DualStack(c, num, t, e) ==
  LET ip6 == c.label + 1
  IN  Emit([Fresh(c) EXCEPT !.sip = TRUE],
           <<Ethertype(c), If("jeq", IPV4, Next_, ip6),
             LdAbs(1, IPv4_PROTO_OFF(c)), If("jeq", num, Here, e)>>
           \o FirstFragment(c, e)
           \o <<LdxMsh(PORT_FIELD_SRC(c)), Ja(t),
                Label(ip6), If("jeq", IPV6, Here, e),
                LdAbs(1, IPv6_PROTO_OFF(c)), If("jeq", num, Next_, e), LdxImm(40)>>)

\* Variants named after a mistake are not part of the compiler: each is what a
\* plausible bug would make of the definition that follows it.
SetupTransportUnfragmented(c, proto, e) ==
  Emit([c EXCEPT !.sip = TRUE], <<LdxMsh(IPv4_H_ST(c))>>)

\* _setup_transport_layer: X becomes the length of the IP header.
SetupTransport(c, proto, e) ==
  LET known   == proto \in DOMAIN _TRANSPORT_PROTO_NUM
      num     == _TRANSPORT_PROTO_NUM[proto]
      fresh   == ~c.parsed_upper
      ip6     == c.label + 1
      ready   == c.label + 2
      is(off, ok) ==
        CASE known -> <<LdAbs(1, off), If("jeq", num, Next_, e)>>
          [] ~known /\ fresh -> << LdAbs(1, off), If("jeq", 6, ok, Next_),
                                   If("jeq", 17, ok, e), Label(ok) >>
          [] OTHER -> <<>>
      v4 == is(IPv4_PROTO_OFF(c), c.label + 3)
            \o FirstFragment(c, e) \o <<LdxMsh(IPv4_H_ST(c))>>
      v6 == is(IPv6_H_ST(c), c.label + 4) \o <<LdxImm(40)>>
  IN  CASE proto = "icmp6" ->
             Emit(c, <<Ethertype(c), If("jeq", IPV6, Next_, e)>> \o v6)
        [] proto \in {"icmp", "igmp"} ->
             Emit(c, <<Ethertype(c), If("jeq", IPV4, Next_, e)>> \o v4)
        [] OTHER ->
             Emit([c EXCEPT !.sip = TRUE, !.label = @ + 4],
               (IF fresh THEN <<Ethertype(c)>> ELSE <<>>)
               \o (IF c.EXPLICIT = IPV6 THEN <<>>
                   ELSE (IF fresh THEN <<If("jeq", IPV4, Next_, ip6)>> ELSE <<>>)
                        \o v4 \o <<Ja(ready)>>)
               \o (IF c.EXPLICIT = IPV4 THEN <<>>
                   ELSE <<Label(ip6)>>
                        \o (IF fresh THEN <<If("jeq", IPV6, Here, e)>> ELSE <<>>)
                        \o v6)
               \o <<Label(ready)>>)

\* _compile_port_filter, with _resolve_port.
PortFilter(c, f, t, e) ==
  LET port == [f EXCEPT !.lo = IF f.kind = "name" THEN Services[f.name] ELSE @]
  IN  IF f.kind = "name" /\ f.name \notin DOMAIN Services THEN Raise(c)
      ELSE Directed(port, IF c.sip THEN c ELSE SetupTransport(c, f.proto, e), f.dir,
                    PORT_FIELD_SRC(c), PORT_FIELD_DST(c), t, e)

PortrangeFilter(c, f, t, e) ==
  Directed(f, SetupTransport(c, f.proto, e), f.dir,
           PORT_FIELD_SRC(c), PORT_FIELD_DST(c), t, e)

\* _compile_protocol.  icmp6 is in no table of protocols and raises.
Protocol(c, name, t, e) ==
  CASE name \in {"ether", "link"} -> Emit(c, <<Ja(t)>>)
    [] name \in DOMAIN ETHERTYPE_MAP ->
         LET type == ETHERTYPE_MAP[name]
         IN  Emit([c EXCEPT !.EXPLICIT = IF type \in {IPV4, IPV6} THEN type ELSE @,
                            !.sip = @ \/ type \in {IPV4, IPV6},
                            !.parsed_upper = TRUE],
                  <<Ethertype(c), If("jeq", type, t, e)>>)
    [] name = "icmp" ->
         Emit(c, (IF c.sip THEN <<>> ELSE <<Ethertype(c), If("jeq", IPV4, Next_, e)>>)
                 \o <<LdAbs(1, IPv4_PROTO_OFF(c)), If("jeq", 1, t, e)>>)
    [] name \in DOMAIN IP_PROTOCOLS \ {"icmp"} ->
         CASE c.EXPLICIT = IPV4 -> Transport4(c, IP_PROTOCOLS[name], t, e)
           [] c.EXPLICIT = IPV6 -> Transport6(c, IP_PROTOCOLS[name], t, e)
           [] OTHER             -> DualStack(c, IP_PROTOCOLS[name], t, e)
    [] OTHER -> Raise(c)

-----------------------------------------------------------------------------
(* vlan, mpls, proto and the other keywords *)

\* The ethertype is read where the filter to the left ended; what follows reads 4
\* further on.
VlanFilter(c, f, t, e) ==
  LET ok == c.label + 1
  IN  Emit([Fresh(c) EXCEPT !.vlans = @ + 1],
           <<Ethertype(c), If("jeq", 33024, ok, Here), If("jeq", 34984, ok, Here),
             If("jeq", 37120, ok, e), Label(ok)>>
           \o (IF f.lo = -1 THEN <<Ja(t)>>
               ELSE <<LdAbs(2, VLAN_ID_OFF(c)), Alu("&", "k", 4095), If("jeq", f.lo, t, e)>>))

MplsFilter(c, f, t, e) ==
  Emit([c EXCEPT !.shims = @ + 1],
       <<Ethertype(c), If("jeq", 34887, Next_, e)>>
       \o (IF f.lo = -1 THEN <<Ja(t)>>
           ELSE <<LdAbs(4, 14), Alu(">>", "k", 12), If("jeq", f.lo, t, e)>>))

\* The number "proto" asks for: one, or that of a network protocol named; no other
\* name is known.
ProtoNumber(f) == IF f.kind = "name" THEN ETHERTYPE_MAP[f.name] ELSE f.lo

\* _compile_proto_filter: "ether proto", "ip6 proto", a network protocol named, or any
\* other.  Without a protocol before it the number itself is not tested.
ProtoFilter(c, f, t, e) ==
  LET num == ProtoNumber(f)
      c1  == [c EXCEPT !.parsed_upper = TRUE, !.EXPLICIT = IF num \in {IPV4, IPV6} THEN num ELSE @]
      check(type) == <<Ethertype(c), If("jeq", type, Here, e)>>
      inner(type, off) ==
        check(type) \o (IF f.proto = "" THEN <<>> ELSE <<LdAbs(1, off), If("jeq", num, t, e)>>)
  IN  CASE f.kind = "name" /\ f.name \notin DOMAIN ETHERTYPE_MAP -> Raise(c)
        [] f.proto \in {"ether", "link"} -> Emit(c1, <<Ethertype(c), If("jeq", num, t, e)>>)
        [] f.proto = "ip6" -> Emit(c1, inner(IPV6, 20))
        [] f.proto \notin {"ether", "link", "ip6"} /\ f.kind = "name" ->
             Emit(c1, IF f.name = "ip6" THEN inner(IPV6, 20) ELSE check(num))
        [] OTHER -> Emit(c1, inner(IPV4, 23))

LengthFilter(c, f, t, e) ==
  Emit(c, <<LdLen, IF f.keyword = "less" THEN If("jgt", f.lo, e, t) ELSE If("jge", f.lo, t, e)>>)

BroadcastFilter(c, t, e) ==
  Emit(c, <<LdAbs(4, 0), If("jeq", Ones, Next_, e), LdAbs(2, 4), If("jeq", 65535, t, e)>>)

MulticastFilter(c, t, e) == Emit(c, <<LdAbs(1, 0), If("jset", 1, t, e)>>)

\* _compile_keyword; inbound, outbound and gateway raise.
Keyword(c, f, t, e) ==
  CASE f.keyword = "host"                -> HostFilter(c, f, t, e)
    [] f.keyword = "net"                 -> NetFilter(c, f, t, e)
    [] f.keyword = "port"                -> PortFilter(c, f, t, e)
    [] f.keyword = "portrange"           -> PortrangeFilter(c, f, t, e)
    [] f.keyword \in {"less", "greater"} -> LengthFilter(c, f, t, e)
    [] f.keyword = "broadcast"           -> BroadcastFilter(c, t, e)
    [] f.keyword = "multicast"           -> MulticastFilter(c, t, e)
    [] f.keyword \in {"proto", "protochain"} -> ProtoFilter(c, f, t, e)
    [] f.keyword = "vlan"                -> VlanFilter(c, f, t, e)
    [] f.keyword = "mpls"                -> MplsFilter(c, f, t, e)
    [] OTHER                             -> Raise(c)

-----------------------------------------------------------------------------
(* Values: _compile_value, _compile_arithmetic, _compile_byte_access *)

RelOps == {"==", "!=", ">", ">=", "<", "<="}
MathOps == {"+", "-", "*", "/", "%", "&", "|", "^", "<<", ">>"}

RECURSIVE Value(_, _, _)

\* The right operand is parked in a scratch cell while the left one is computed.
Operands(c, f, e) ==
  LET cell  == c.scratch
      right == Value([c EXCEPT !.scratch = @ + 1], f.right, e)
      left  == Value(Emit(right, <<St(cell)>>), f.left, e)
  IN  IF cell >= ScratchCells THEN Raise(c)
      ELSE [Emit(left, <<LdxMem(cell)>>) EXCEPT !.scratch = cell]

Arithmetic(c, f, e) ==
  IF f.right.node = "number"
  THEN IF f.op \in {"/", "%"} /\ f.right.value = 0 THEN Raise(c)
       ELSE Emit(Value(c, f.left, e), <<Alu(f.op, "k", f.right.value)>>)
  ELSE Emit(Operands(c, f, e), <<Alu(f.op, "x", 0)>>)

Fixed(offset) == offset.node \in {"number", "field"}
OffsetOf(offset) ==
  IF offset.node = "number" THEN offset.value ELSE FIELD_OFFSETS[offset.name]

\* A byte of a transport header.  Once sip is set no check but that of EXPLICIT is made.
TransportByte(c, f, e) ==
  LET num == _TRANSPORT_PROTO_NUM[f.protocol]
      ready ==
        CASE ~c.sip -> SetupTransport(c, f.protocol, e)
          [] c.sip /\ c.EXPLICIT = IPV4 ->
               Emit(c, <<LdAbs(1, IPv4_PROTO_OFF(c)), If("jeq", num, Here, e)>>
                       \o FirstFragment(c, e) \o <<LdxMsh(IPv4_H_ST(c))>>)
          [] c.sip /\ c.EXPLICIT = IPV6 -> Emit(c, <<LdxImm(40)>>)
          [] OTHER -> c
      cell == ready.scratch
      c1 == Value([Emit(ready, <<Stx(cell)>>) EXCEPT !.scratch = @ + 1], f.offset, e)
  IN  CASE Fixed(f.offset) -> Emit(ready, <<LdInd(f.size, 14 + OffsetOf(f.offset))>>)
        [] ~Fixed(f.offset) /\ cell >= ScratchCells -> Raise(c)
        [] OTHER -> [ Emit(c1, << Alu("+", "k", 14), LdxMem(cell), Alu("+", "x", 0), Tax,
                                  LdInd(f.size, 0) >>) EXCEPT !.scratch = cell ]

ByteAccess(c, f, e) ==
  LET at(c1, base) ==
        IF Fixed(f.offset) THEN Emit(c1, <<LdAbs(f.size, base + OffsetOf(f.offset))>>)
        ELSE Emit(Value(c1, f.offset, e),
                  (IF base = 0 THEN <<>> ELSE <<Alu("+", "k", base)>>)
                  \o <<Tax, LdInd(f.size, 0)>>)
      guarded(type) == Emit(c, <<Ethertype(c), If("jeq", type, Here, e)>>)
  IN  CASE f.protocol \in {"ether", "link"} -> at(c, 0)
        [] f.protocol \in {"ip", "ip6"} ->
             at(guarded(ETHERTYPE_MAP[f.protocol]), IPv4_H_ST(c))
        [] f.protocol \in DOMAIN _TRANSPORT_PROTO_NUM -> TransportByte(c, f, e)
        [] f.protocol \in DOMAIN ETHERTYPE_MAP \ {"ip", "ip6"} ->
             LET c1 == guarded(ETHERTYPE_MAP[f.protocol])
             IN  IF Fixed(f.offset) THEN at(c1, 14) ELSE c1
        [] OTHER -> Raise(c)

Value(c, f, e) ==
  CASE f.node = "number" -> Emit(c, <<LdImm(f.value)>>)
    [] f.node = "len"    -> Emit(c, <<LdLen>>)
    [] f.node = "byte"   -> ByteAccess(c, f, e)
    [] f.node = "binary" -> IF f.op \in MathOps THEN Arithmetic(c, f, e) ELSE Raise(c)
    [] f.node = "literal" /\ f.kind = "ipv4" -> Emit(c, <<LdImm(f.words[1])>>)
    [] OTHER             -> Raise(c)

-----------------------------------------------------------------------------
(* Booleans: _compile_comparison, _compile_bitwise_bool, _compile_bool *)

\* <, <= and != are the opposite of >=, > and ==.
Branch(op) ==
  CASE op \in {"==", "!="} -> "jeq" [] op \in {">", "<="} -> "jgt" [] op \in {">=", "<"} -> "jge"
Negated(op) == op \in {"!=", "<", "<="}

\* (x & mask) compared with 0 is a test of bits, for the operators listed here;
\* for < and <= nothing is emitted.
Comparison(c, f, t, e) ==
  LET zero == f.right.node = "number" /\ f.right.value = 0
      mask == f.left.node = "binary" /\ f.left.op = "&" /\ f.left.right.node = "number"
      yes  == IF Negated(f.op) THEN e ELSE t
      no   == IF Negated(f.op) THEN t ELSE e
      bits == Value(c, f.left.left, e)
  IN  CASE zero /\ mask ->
             CASE f.op \in {"!=", ">"} -> Emit(bits, <<If("jset", f.left.right.value, t, e)>>)
               [] f.op = "==" -> Emit(bits, <<If("jset", f.left.right.value, e, t)>>)
               [] f.op = ">=" -> Emit(bits, <<Ja(t)>>)
               [] OTHER       -> bits
        [] f.right.node = "number" /\ ~(zero /\ mask) ->
             Emit(Value(c, f.left, e), <<If(Branch(f.op), f.right.value, yes, no)>>)
        [] OTHER -> Emit(Operands(c, f, e), <<IfX(Branch(f.op), yes, no)>>)

BitwiseBool(c, f, t, e) ==
  IF f.right.node = "number"
  THEN Emit(Value(c, f.left, e), <<If("jset", f.right.value, t, e)>>)
  ELSE Emit(Operands(c, f, e), <<IfX("jset", t, e)>>)

RECURSIVE Bool(_, _, _, _)
Bool(c, f, t, e) ==
  LET nxt   == c.label + 1
      right(left) == Bool(Emit(left, <<Label(nxt)>>), f.right, t, e)
      binary == f.node = "binary"
  IN  CASE binary /\ f.op = "and"   -> right(Bool(Fresh(c), f.left, nxt, e))
        [] binary /\ f.op = "or"    -> right(Bool(Fresh(c), f.left, t, nxt))
        [] binary /\ f.op \in RelOps -> Comparison(c, f, t, e)
        [] binary /\ f.op = "&"     -> BitwiseBool(c, f, t, e)
        [] f.node = "not"           -> Bool(c, f.expr, e, t)
        [] f.node = "protocol"      -> Protocol(c, f.name, t, e)
        [] f.node = "keyword"       -> Keyword(c, f, t, e)
        [] f.node \in {"byte", "number", "len"} \/ (binary /\ f.op \in MathOps \ {"&"}) ->
             Emit(Value(c, f, e), <<If("jeq", 0, e, t)>>)
        [] OTHER                    -> Raise(c)

-----------------------------------------------------------------------------
(* _assemble_and_backpatch *)

\* Labels become offsets, through the unconditional jumps they lead to; the literal 0
\* stays what it is.
Assemble(code) ==
  LET isCode(i) == i.class # "label"
      clean == SelectSeq(code, isCode) \o <<Ret(BPF_MAX_BUF_LEN), Ret(0)>>
      Before(n) == Cardinality({m \in 1..(n - 1) : isCode(code[m])})
      place(l) == 1 + Before(CHOOSE n \in DOMAIN code : code[n].class = "label" /\ code[n].k = l)
      where(n, x) == CASE x = Accept -> Len(clean) - 1
                       [] x = Reject -> Len(clean)
                       [] x = Next_  -> n + 1
                       [] OTHER      -> place(x)
      RECURSIVE follow(_)
      follow(n) == IF IsJa(clean[n]) THEN follow(where(n, clean[n].k)) ELSE n
      offset(n, x) == IF x = Here THEN 0 ELSE follow(where(n, x)) - (n + 1)
      insn(n) ==
        LET i == clean[n]
        IN  CASE IsJa(i) -> [i EXCEPT !.k = offset(n, @)]
              [] IsIf(i) -> [i EXCEPT !.jt = offset(n, @), !.jf = offset(n, @)]
              [] OTHER   -> i
  IN  [n \in DOMAIN clean |-> insn(n)]

Short(offset) == offset \in 0..MaxOffset
Fits(code) == \A n \in DOMAIN code : IsIf(code[n]) => Short(code[n].jt) /\ Short(code[n].jf)

\* to_fprog (Fprog.py) keeps the lower bits of an offset, 8 of them for 255.
to_fprog(code) ==
  LET cut(offset) == offset % (MaxOffset + 1)
  IN  [ n \in DOMAIN code |->
          IF IsIf(code[n]) THEN [code[n] EXCEPT !.jt = cut(@), !.jf = cut(@)] ELSE code[n] ]

Compile(f) == Bool(New, f, Accept, Reject)
=============================================================================
