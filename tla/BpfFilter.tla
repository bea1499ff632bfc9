------------------------------ MODULE BpfFilter ------------------------------
(***************************************************************************)
(* A capture filter from its words to a verdict on a frame: compile_str    *)
(* and compile of Compiler.py, optimize of Peephole.py, pass by pass,      *)
(* to_fprog, and the run of what it makes, instruction by instruction, as  *)
(* BpfEmulator.execute does it.                                            *)
(*                                                                         *)
(* Meaning says what a filter is to say of a frame, from the fields the    *)
(* frame was built of; the program sees its bytes only.                    *)
(***************************************************************************)
EXTENDS BpfCompiler, BpfParser

CONSTANTS Filters,   \* trees of filters
          Frames     \* frames to be judged, as records of their fields

VARIABLES filter,    \* the tree whose words are given to compile_str
          tree,      \* what the parser made of them
          code,      \* the program, as the last pass left it
          stage,     \* the pass to come, "execute", "done" or "raised"
          frame,     \* the frame the program runs on
          vm         \* the registers of the emulator

vars == <<filter, tree, code, stage, frame, vm>>

-----------------------------------------------------------------------------
(* The words of a tree, with the parentheses the grammar needs and no      *)
(* others, or with a pair around every operand                             *)

Word(text)      == <<[text |-> text, value |-> 0]>>
Valued(text, v) == <<[text |-> text, value |-> v]>>

\* Where an operator stands in the grammar of Parser.py, loosest first.
Binding(f) ==
  CASE f.node = "binary" ->
         CASE f.op = "or" -> 1 [] f.op = "and" -> 2 [] f.op \in REL_OPS -> 4
           [] f.op = "|" -> 5 [] f.op = "^" -> 6 [] f.op = "&" -> 7
           [] f.op \in {"<<", ">>"} -> 8 [] f.op \in {"+", "-"} -> 9 [] OTHER -> 10
    [] f.node = "not" -> 3
    [] OTHER -> 11

\* context is the loosest binding that goes without parentheses; Everywhere: none does.
Everywhere == 12

RECURSIVE Shown(_, _)
Shown(f, context) ==
  LET b == Binding(f)
      within(n) == IF context = Everywhere THEN Everywhere ELSE n
      left == IF b = 4 THEN 5 ELSE b
      some(text) == IF text = "" THEN <<>> ELSE Word(text)
      dir == CASE f.dir = "src or dst"  -> Word("src") \o Word("or") \o Word("dst")
               [] f.dir = "src and dst" -> Word("src") \o Word("and") \o Word("dst")
               [] OTHER -> some(f.dir)
      address(kind, ws, masks) == Valued("@", [kind |-> kind, words |-> ws, masks |-> masks])
      value ==
        CASE f.kind = "name" -> Word(f.name)
          [] f.kind \notin {"name", "number"} ->
               address(f.kind, f.words, f.masks)
               \o (IF f.mask = <<>> THEN <<>> ELSE Word("mask") \o address("ipv4", f.mask, <<>>))
          [] f.keyword = "portrange" -> Valued("a-b", <<f.lo, f.hi>>)
          [] f.keyword \in {"broadcast", "multicast", "inbound"} \/ f.lo = -1 -> <<>>
          [] OTHER -> Valued("#", f.lo)
      words ==
        CASE f.node = "binary"   -> Shown(f.left, within(left)) \o Word(f.op)
                                    \o Shown(f.right, within(b + 1))
          [] f.node = "not"      -> Word("not") \o Shown(f.expr, within(3))
          [] f.node = "protocol" -> Word(f.name)
          [] f.node = "number"   -> Valued("#", f.value)
          [] f.node = "len"      -> Word("len")
          [] f.node = "field"    -> Word(f.name)
          [] f.node = "byte"     ->
               Word(f.protocol) \o Word("[") \o Shown(f.offset, within(5))
               \o (IF f.size = 1 THEN <<>> ELSE Word(":") \o Valued("#", f.size)) \o Word("]")
          [] f.node = "literal"  -> Valued("@", [kind |-> f.kind, words |-> f.words, masks |-> <<>>])
          [] f.node = "keyword"  -> some(f.proto) \o dir \o Word(f.keyword) \o value
  IN  IF b < context THEN Word("(") \o words \o Word(")") ELSE words

-----------------------------------------------------------------------------
(* Frames: [tags, type, proto, first, ihl, src, dst, sport, dport, flags, to]; *)
(* tags are the vlan identifiers, src and dst are addresses in words.          *)

Bytes2(n) == <<n \div 256, n % 256>>
Bytes4(n) == Bytes2(n \div 65536) \o Bytes2(n % 65536)
BytesOf(words) == FlattenSeq([i \in DOMAIN words |-> Bytes4(words[i])])
Zeros(n) == [i \in 1..n |-> 0]

Network(d) ==
  CASE d.type = IPV4 -> <<64 + d.ihl>> \o Zeros(5) \o Bytes2(IF d.first THEN 0 ELSE 185)
                        \o <<64, d.proto, 0, 0>> \o BytesOf(d.src) \o BytesOf(d.dst)
                        \o Zeros(4 * (d.ihl - 5))
    [] d.type = IPV6 -> <<96>> \o Zeros(5) \o <<d.proto, 64>> \o BytesOf(d.src) \o BytesOf(d.dst)
    [] OTHER         -> Zeros(8)

Sender == <<2, 0, 0, 0, 0, 3>>

Bytes(d) ==
  d.to \o Sender
  \o FlattenSeq([i \in DOMAIN d.tags |-> Bytes2(33024) \o Bytes2(d.tags[i])])
  \o Bytes2(d.type) \o Network(d)
  \o Bytes2(d.sport) \o Bytes2(d.dport) \o Zeros(9) \o <<d.flags>> \o Zeros(6)

-----------------------------------------------------------------------------
(* What a filter means *)

Carries(d, num) == d.proto = num /\ (d.type = IPV6 \/ (d.type = IPV4 /\ d.first))

Plain(d)  == d.tags = <<>>
Inner(d)  == [d EXCEPT !.tags = Tail(@)]
EthernetType(d) == IF Plain(d) THEN d.type ELSE 33024

Reads_(f, d) ==
  CASE f.protocol = "ether"        -> TRUE
    [] f.protocol \in {"ip", "ip6", "arp"} -> EthernetType(d) = ETHERTYPE_MAP[f.protocol]
    [] OTHER -> Plain(d) /\ Carries(d, _TRANSPORT_PROTO_NUM[f.protocol])
                /\ (f.protocol = "icmp" => d.type = IPV4)

Header(f, d) ==
  CASE f.protocol = "ether" -> 0
    [] f.protocol \in {"ip", "ip6", "arp"} -> 14
    [] OTHER -> 14 + IF d.type = IPV4 THEN 4 * d.ihl ELSE 40

RECURSIVE Known(_, _), Evaluate(_, _), Meaning(_, _)

\* Whether the frame has every header whose bytes an expression reads.
Known(f, d) ==
  CASE f.node = "binary" -> Known(f.left, d) /\ Known(f.right, d)
    [] f.node = "byte"   -> Reads_(f, d) /\ Known(f.offset, d)
    [] OTHER             -> TRUE

Evaluate(f, d) ==
  CASE f.node = "number" -> f.value
    [] f.node = "field"  -> FIELD_OFFSETS[f.name]
    [] f.node = "len"    -> Len(Bytes(d))
    [] f.node = "literal" -> f.words[1]
    [] f.node = "byte"   -> Read(Bytes(d), Header(f, d) + Evaluate(f.offset, d), f.size)
    [] f.node = "binary" ->
         Compute([Start EXCEPT !.A = Evaluate(f.left, d)],
                 Alu(f.op, "k", Evaluate(f.right, d))).A

Compared(op, a, b) ==
  CASE op = "==" -> a = b      [] op = "!=" -> a # b
    [] op = "<"  -> Below(a, b) [] op = ">"  -> Below(b, a)
    [] op = ">=" -> ~Below(a, b) [] op = "<=" -> ~Below(b, a)

Either(dir, src, dst) ==
  CASE dir = "src" -> src [] dir = "dst" -> dst
    [] dir = "src and dst" -> src /\ dst [] OTHER -> src \/ dst

InNet(words, net, masks) ==
  \A i \in DOMAIN net : WAnd(words[i], masks[i]) = WAnd(net[i], masks[i])

MeaningOfKeyword(f, d) ==
  LET type == IF f.kind \in {"ipv6", "cidr6"} THEN IPV6 ELSE IPV4
      net   == IF f.kind = "name" THEN Hosts[f.name] ELSE f.words
      masks == IF f.keyword = "host" THEN AllOnes(net) ELSE MasksOf(f)
      in(port) == CASE f.kind = "name"      -> port = Services[f.name]
                    [] f.keyword = "port" /\ f.kind = "number" -> port = f.lo
                    [] f.keyword = "portrange" -> port \in f.lo .. f.hi
      nums == IF f.proto = "" THEN {6, 17} ELSE {_TRANSPORT_PROTO_NUM[f.proto]}
      mac == Bytes4(f.words[1]) \o Bytes2(f.words[2])
  IN  CASE f.kind = "mac" -> Either(f.dir, Sender = mac, d.to = mac)
        [] f.keyword \in {"host", "net"} /\ f.kind # "mac" ->
             /\ EthernetType(d) = type
             /\ Either(f.dir, InNet(d.src, net, masks), InNet(d.dst, net, masks))
        [] f.keyword \in {"port", "portrange"} ->
             /\ Plain(d)
             /\ \E num \in nums : Carries(d, num)
             /\ Either(f.dir, in(d.sport), in(d.dport))
        [] f.keyword = "less"      -> Len(Bytes(d)) <= f.lo
        [] f.keyword = "greater"   -> Len(Bytes(d)) >= f.lo
        [] f.keyword = "broadcast" -> d.to = [i \in 1..6 |-> 255]
        [] f.keyword = "multicast" -> d.to[1] % 2 = 1
        [] f.keyword = "vlan"      -> ~Plain(d) /\ f.lo \in {-1, Head(d.tags)}
        [] f.keyword = "mpls"      -> FALSE      \* no frame carries labels
        [] f.keyword = "proto" /\ (f.proto = "ether" \/ f.kind = "name") ->
             EthernetType(d) = ProtoNumber(f)
        [] f.keyword = "proto" /\ f.proto \in {"", "ip", "ip6"} /\ f.kind = "number" ->
             /\ EthernetType(d) \in (CASE f.proto = "" -> {IPV4, IPV6} [] f.proto = "ip" -> {IPV4}
                                        [] OTHER -> {IPV6})
             /\ d.proto = f.lo

IsVlan(f) == f.node = "keyword" /\ f.keyword = "vlan"

\* "vlan and f": f is about what follows the tag.
Meaning(f, d) ==
  CASE f.node = "binary" /\ f.op = "and" ->
         Meaning(f.left, d) /\ Meaning(f.right, IF IsVlan(f.left) THEN Inner(d) ELSE d)
    [] f.node = "binary" /\ f.op = "or" -> Meaning(f.left, d) \/ Meaning(f.right, d)
    [] f.node = "binary" /\ f.op \in REL_OPS ->
         Known(f, d) /\ Compared(f.op, Evaluate(f.left, d), Evaluate(f.right, d))
    [] f.node = "not"      -> ~Meaning(f.expr, d)
    [] f.node = "protocol" ->
         CASE f.name \in DOMAIN ETHERTYPE_MAP -> EthernetType(d) = ETHERTYPE_MAP[f.name]
           [] f.name = "ether" -> TRUE
           [] f.name = "icmp"  -> EthernetType(d) = IPV4 /\ d.proto = 1
           [] OTHER -> Plain(d) /\ Carries(d, _TRANSPORT_PROTO_NUM[f.name])
    [] f.node = "keyword"  -> MeaningOfKeyword(f, d)
    [] OTHER               -> Known(f, d) /\ Evaluate(f, d) # 0

-----------------------------------------------------------------------------
(* The pipeline *)

Init ==
  /\ filter \in Filters
  /\ tree = Length
  /\ code = <<>>
  /\ stage = "parse"
  /\ frame \in {CHOOSE d \in Frames : TRUE}
  /\ vm = Start

\* compile_str: BpfLexer(...).tokenize(), then BpfParser(...).parse().
ParseFilter ==
  \E context \in {1, Everywhere} :
    LET r == Parse(Tokenize(Shown(filter, context)))
    IN  /\ stage = "parse"
        /\ tree' = r.node
        /\ stage' = IF r.ok THEN "compile" ELSE "raised"
        /\ UNCHANGED <<filter, code, frame, vm>>

\* Variants named after a mistake are not part of the pipeline: each is what a plausible
\* bug would make of the definition that follows it.
CompileTreeUnchecked ==
  LET c == Compile(tree)
  IN  /\ stage = "compile"
      /\ IF c.raised
         THEN stage' = "raised" /\ UNCHANGED code
         ELSE stage' = "noops" /\ code' = Assemble(c.code)
      /\ UNCHANGED <<filter, tree, frame, vm>>

\* compile, up to the optimiser.  It raises at a node the compiler does not know, a name
\* nobody knows, a cell there is not, or a conditional jump that leads too far.
CompileTree ==
  LET c == Compile(tree)
      assembled == Assemble(c.code)
  IN  /\ stage = "compile"
      /\ IF c.raised \/ ~Fits(assembled)
         THEN stage' = "raised" /\ UNCHANGED code
         ELSE stage' = "noops" /\ code' = assembled
      /\ UNCHANGED <<filter, tree, frame, vm>>

Pass(from, to, next) ==
  /\ stage = from
  /\ code' = next
  /\ stage' = to
  /\ UNCHANGED <<filter, tree, frame, vm>>

\* optimize: its four passes.
Optimize ==
  \/ Pass("noops", "thread", RemoveNoopJumps(code))
  \/ Pass("thread", "dead code", ThreadJumps(code))
  \/ Pass("dead code", "thread again", EliminateDeadCode(code))
  \/ Pass("thread again", "attach", ThreadJumps(code))

\* The program is attached and a frame arrives.
Receive ==
  /\ stage = "attach"
  /\ frame' \in Frames
  /\ stage' = "execute"
  /\ UNCHANGED <<filter, tree, code, vm>>

ExecuteOne ==
  /\ stage = "execute"
  /\ ~vm.halted
  /\ vm' = Execute(vm, to_fprog(code), Bytes(frame))
  /\ stage' = IF vm'.halted THEN "done" ELSE stage
  /\ UNCHANGED <<filter, tree, code, frame>>

Terminated == stage \in {"done", "raised"} /\ UNCHANGED vars

Next == ParseFilter \/ CompileTree \/ Optimize \/ Receive \/ ExecuteOne \/ Terminated

Spec == Init /\ [][Next]_vars
-----------------------------------------------------------------------------
(* Properties *)

\* The parser takes every filter and gives back the tree whose words it read, with a pair
\* of parentheses around every operand or only where the grammar needs them: "and" before
\* "or", operators of one level to the left, and a parenthesis of arithmetic told from one
\* of logic, whichever comes first and however they nest.
ParsedAsWritten == stage # "parse" => tree = filter

\* The optimiser leads on also the jumps that the source writes as the literal 0, and asks
\* no range of them: where such a jump stands before an unconditional one.
LeadsOn(program) ==
  \E n \in DOMAIN program : /\ IsIf(program[n])
                            /\ \E t \in Targets(program, n) : IsJa(program[t])

\* After assembly and after every pass each jump leads forward and to an instruction of
\* the program, the last instruction returns, every cell that is named exists, and no
\* constant that is divided by is 0.  And each conditional jump is in range after every
\* pass, unless assembly left one for the optimiser to lead on.
WellFormed ==
  code # <<>> =>
    /\ code[Len(code)].class = "ret"
    /\ \A n \in DOMAIN code :
         /\ \A t \in Targets(code, n) : t > n /\ t \in DOMAIN code
         /\ (code[n].class \in {"st", "stx"} \/ code[n].mode = "mem") => code[n].k < ScratchCells
         /\ code[n].mode \in {"/", "%"} /\ code[n].src = "k" => code[n].k # 0
    /\ stage \in {"thread", "dead code", "thread again", "attach"} =>
         Fits(code) \/ LeadsOn(Assemble(Compile(tree).code))

\* Where the compiler is to be right.  Its memory of what stands to the left assumes
\* that this held: so no node that leaves something to remember may stand before one
\* that relies on it.  A transport protocol alone, and "proto" where no number is tested,
\* end without a jump, so they must be followed by what comes next if they hold; and
\* "proto 6" does not ask for the 6.  Host, net and bytes do not know of tags.
RECURSIVE LeavesOf(_)
LeavesOf(f) ==
  CASE f.node = "binary" -> LeavesOf(f.left) \o LeavesOf(f.right)
    [] f.node = "not"    -> LeavesOf(f.expr)
    [] f.node = "byte"   -> <<f>> \o LeavesOf(f.offset)
    [] OTHER             -> <<f>>

Transports == {"tcp", "udp", "sctp"}
Bare(f)    == f.node = "protocol" /\ f.name \in Transports
Ported(f)  == f.node = "keyword" /\ f.keyword \in {"port", "portrange"}
OfTransport(f) == f.node = "byte" /\ f.protocol \in DOMAIN _TRANSPORT_PROTO_NUM
Relies(f)  == Bare(f) \/ Ported(f) \/ OfTransport(f) \/ f = Protocol_("icmp")
Remembered(f) ==
  \/ Bare(f) \/ Ported(f) \/ OfTransport(f)
  \/ f.node = "protocol" /\ f.name \in DOMAIN ETHERTYPE_MAP
  \/ f.node = "keyword" /\ f.keyword = "proto"
Unjumped(f) ==
  \/ Bare(f)
  \/ f.node = "keyword" /\ f.keyword = "proto" /\ f.proto \notin {"ether", "ip6"}
       /\ (f.kind = "name" \/ f.proto = "")
Unasked(f) == f.node = "keyword" /\ f.keyword = "proto" /\ f.proto = "" /\ f.kind = "number"
Tagged(f)  == f.node = "keyword" /\ f.keyword \in {"vlan", "mpls"}
Untagged(f) == f.node = "byte" \/ (f.node = "keyword" /\ f.keyword \in {"host", "net", "proto"})

RECURSIVE Falls(_, _)
Falls(f, next) ==
  CASE f.node = "binary" /\ f.op = "and" -> Falls(f.left, TRUE) /\ Falls(f.right, next)
    [] f.node = "binary" /\ f.op = "or"  -> Falls(f.left, FALSE) /\ Falls(f.right, next)
    [] f.node = "not"                    -> Falls(f.expr, FALSE)
    [] OTHER                             -> Unjumped(f) => next

RECURSIVE TagsFirst(_)
TagsFirst(f) ==
  \/ ~\E n \in DOMAIN LeavesOf(f) : Tagged(LeavesOf(f)[n])
  \/ Tagged(f)
  \/ /\ f.node = "binary" /\ f.op = "and" /\ Tagged(f.left) /\ TagsFirst(f.right)
     /\ ~\E n \in DOMAIN LeavesOf(f.right) : Untagged(LeavesOf(f.right)[n])

\* Where everything holds, what a transport protocol leaves is what a port needs.
RECURSIVE Conjunction(_)
Conjunction(f) ==
  CASE f.node = "binary" /\ f.op = "or"  -> FALSE
    [] f.node = "binary" /\ f.op = "and" -> Conjunction(f.left) /\ Conjunction(f.right)
    [] OTHER                             -> f.node # "not"
Agree(f, g) == Bare(f) /\ Ported(g) /\ g.proto \in {"", f.name}

Regular(f) ==
  LET l == LeavesOf(f)
  IN  /\ \A m, n \in DOMAIN l :
           m < n /\ Remembered(l[m]) /\ Relies(l[n]) => Conjunction(f) /\ Agree(l[m], l[n])
      /\ \A n \in DOMAIN l : ~Unasked(l[n])
      /\ Falls(f, TRUE)
      /\ TagsFirst(f)

Accepts == vm.out > 0

\* The program of such a filter, if no jump was led out of range, accepts a frame exactly
\* if the filter says so of it: whatever fragments, header lengths, tags, directions and
\* scratch cells it takes.
VerdictIsMeaning ==
  stage = "done" /\ Regular(filter) /\ Fits(code) => (Accepts <=> Meaning(filter, frame))

\* The same of every filter the compiler accepts.
EveryVerdictIsMeaning == stage = "done" => (Accepts <=> Meaning(filter, frame))

\* No pass of the optimiser changes what the program says of any frame.
KeepsVerdicts == \A d \in Frames : Result(code', Bytes(d)) = Result(code, Bytes(d))
OptimizerKeepsVerdicts == [][(code # <<>> => KeepsVerdicts)]_code
=============================================================================
