------------------------------ MODULE BpfParser ------------------------------
(***************************************************************************)
(* LightPacket/LightBPF/Lexer.py and Parser.py: from the words of a filter *)
(* to its tree.                                                            *)
(*                                                                         *)
(* A word is [text, value]; the value is the number or the address, the    *)
(* text says which for those ("#", "a-b", "@").  The regular expression    *)
(* that cuts the filter into words is left out; how a word is classified   *)
(* is not.                                                                 *)
(***************************************************************************)
EXTENDS Integers, Sequences

LOGICAL_OPS        == {"and", "or", "not"}
FIELD_NAMES        == {"tcpflags", "icmptype", "icmpcode"}
DLT_LINKS          == {"ether", "link"}
PROTO_QUALIFIERS   == {"tcp", "udp", "icmp", "icmp6", "sctp"}
IP_PROTOCOL_NAMES  == {"igmp", "gre"}       \* of the many names of the table, two
ETHERTYPE_KEYWORDS == {"ip", "ip6", "arp", "rarp"}
KEYWORDS ==
  { "host", "port", "net", "mask", "src", "dst", "portrange", "inbound", "outbound",
    "less", "greater", "gateway", "broadcast", "multicast", "proto", "protochain",
    "len", "vlan", "mpls" }
REL_OPS  == {"==", "!=", ">", ">=", "<", "<="}
MATH_OPS == {"+", "-", "*", "/", "%", "&", "|", "^", "<<", ">>"}
SYMBOLS  == {"[", "]", "(", ")", ":"}

\* tokenize and _classify_word: the first class that knows the word.
TypeOf(text) ==
  CASE text = "#"                      -> "NUMBER"
    [] text = "a-b"                    -> "RANGE"
    [] text = "@"                      -> "ADDRESS"
    [] text \in REL_OPS                -> "REL_OP"
    [] text \in MATH_OPS               -> "MATH_OP"
    [] text \in SYMBOLS                -> "SYMBOL"
    [] text \in LOGICAL_OPS            -> "LOGICAL"
    [] text \in FIELD_NAMES            -> "FIELD"
    [] text \in DLT_LINKS              -> "DLT"
    [] text \in PROTO_QUALIFIERS       -> "IP-PROTOCOL"
    [] text \in {"vlan", "mpls"}       -> "KEYWORD"
    [] text \in ETHERTYPE_KEYWORDS     -> "ETHERTYPE"
    [] text \in IP_PROTOCOL_NAMES      -> "IP-PROTOCOL"
    [] text \in KEYWORDS               -> "KEYWORD"
    [] OTHER                           -> "IDENTIFIER"

Tokenize(words) ==
  [ n \in DOMAIN words |->
      [type |-> TypeOf(words[n].text), text |-> words[n].text, value |-> words[n].value] ]

-----------------------------------------------------------------------------
(* The nodes of the tree *)

BinaryOp(left, op, right) == [node |-> "binary", left |-> left, op |-> op, right |-> right]
UnaryOp(expr)             == [node |-> "not", expr |-> expr]
Protocol_(name)           == [node |-> "protocol", name |-> name]
Number(n)                 == [node |-> "number", value |-> n]
Length                    == [node |-> "len"]
Field(name)               == [node |-> "field", name |-> name]
Byte(proto, offset, size) ==
  [node |-> "byte", protocol |-> proto, offset |-> offset, size |-> size]
Literal(kind, words) == [node |-> "literal", kind |-> kind, words |-> words]

\* The value of a keyword is a number or two, a name, or an address with the masks of
\* its prefix, if it is a cidr4 or cidr6, and that of the word "mask".
Keyword_(kw, lo, hi, dir, proto) ==
  [ node |-> "keyword", keyword |-> kw, lo |-> lo, hi |-> hi, dir |-> dir, proto |-> proto,
    kind |-> "number", name |-> "", words |-> <<>>, masks |-> <<>>, mask |-> <<>> ]
Named(kw, name, dir, proto) ==
  [Keyword_(kw, 0, 0, dir, proto) EXCEPT !.kind = "name", !.name = name]
Address(kw, a, dir, proto) ==
  [ Keyword_(kw, 0, 0, dir, proto) EXCEPT !.kind = a.kind, !.words = a.words, !.masks = a.masks ]

\* What a parsing method returns: the node and where it stopped, or a SyntaxError.
Ok(node, pos) == [ok |-> TRUE, node |-> node, pos |-> pos]
SyntaxError   == [ok |-> FALSE, node |-> Length, pos |-> 0]

At(ts, p) ==
  IF p \in DOMAIN ts THEN ts[p] ELSE [type |-> "END", text |-> "", value |-> 0]
Is(ts, p, text) == At(ts, p).text = text
Protocols == {"IP-PROTOCOL", "DLT", "ETHERTYPE"}

\* consume: a word that has to be there.
Consume(ts, r, text) ==
  IF r.ok /\ ~Is(ts, r.pos, text) THEN SyntaxError
  ELSE [r EXCEPT !.pos = @ + 1]

-----------------------------------------------------------------------------
(* _parse_qualifier_rule and _parse_keyword_value *)

\* The value after a keyword at p - 1.
KeywordValue(ts, p, kw, proto, dir) ==
  LET v == At(ts, p)
      number(lo, hi, pos) == Ok(Keyword_(kw, lo, hi, dir, proto), pos)
      name == Ok(Named(kw, v.text, dir, proto), p + 1)
  IN  CASE /\ kw \in {"broadcast", "multicast", "inbound", "outbound", "gateway"}
           /\ v.type \notin {"NUMBER", "ADDRESS", "IDENTIFIER"} -> number(0, 0, p)
        [] kw \in {"less", "greater", "proto", "protochain", "port"} /\ v.type = "NUMBER" ->
             number(v.value, 0, p + 1)
        [] \/ kw \in {"proto", "protochain"} /\ v.type \in {"IP-PROTOCOL", "ETHERTYPE", "IDENTIFIER"}
           \/ kw = "port" /\ v.type \in {"IP-PROTOCOL", "IDENTIFIER"}
           \/ kw \in {"host", "net", "gateway"} /\ v.type = "IDENTIFIER" -> name
        [] kw \in {"vlan", "mpls"} ->
             IF v.type = "NUMBER" THEN number(v.value, 0, p + 1) ELSE number(-1, 0, p)
        [] kw = "portrange" ->
             IF v.type = "RANGE" /\ v.value[1] <= v.value[2]
             THEN number(v.value[1], v.value[2], p + 1) ELSE SyntaxError
        [] kw = "net" /\ v.type = "NUMBER" -> number(v.value, 0, p + 1)
        [] kw \in {"host", "net", "gateway"} /\ v.type = "ADDRESS" ->
             LET m    == At(ts, p + 2)
                 node == Address(kw, v.value, dir, proto)
             IN  CASE ~(kw = "net" /\ Is(ts, p + 1, "mask")) -> Ok(node, p + 1)
                   [] m.type = "ADDRESS" /\ m.value.kind = "ipv4" ->
                        Ok([node EXCEPT !.mask = m.value.words], p + 3)
                   [] OTHER -> SyntaxError
        [] OTHER -> SyntaxError

\* Whether "or"/"and" at p joins two directions or two filters: "src or dst port 80"
\* against "src port 80 or dst port 80".
JoinsDirections(ts, p, dir) ==
  /\ At(ts, p).text \in {"or", "and"}
  /\ At(ts, p + 1).text \in {"src", "dst"} \ {dir}
  /\ At(ts, p + 2).type = "KEYWORD"
  /\ At(ts, p + 2).text \notin {"src", "dst"}

QualifierRule(ts, p) ==
  LET named == At(ts, p).type \in Protocols
      proto == IF named THEN At(ts, p).text ELSE ""
      p1    == IF named THEN p + 1 ELSE p
      one   == At(ts, p1).text \in {"src", "dst"}
      both  == one /\ JoinsDirections(ts, p1 + 1, At(ts, p1).text)
      dir   == CASE both -> IF Is(ts, p1 + 1, "or") THEN "src or dst" ELSE "src and dst"
                 [] one /\ ~both -> At(ts, p1).text
                 [] OTHER -> ""
      p2    == CASE both -> p1 + 3 [] one /\ ~both -> p1 + 1 [] OTHER -> p1
  IN  CASE At(ts, p2).type = "KEYWORD" -> KeywordValue(ts, p2 + 1, At(ts, p2).text, proto, dir)
        [] At(ts, p2).type # "KEYWORD" /\ named /\ ~one -> Ok(Protocol_(proto), p1)
        [] OTHER -> SyntaxError

\* _starts_qualifier_rule: a protocol before "[" is the access to a byte.
StartsQualifierRule(ts, p) ==
  \/ At(ts, p).type = "KEYWORD" /\ ~Is(ts, p, "len")
  \/ At(ts, p).type \in Protocols /\ ~Is(ts, p + 1, "[")

-----------------------------------------------------------------------------
(* Arithmetic: expr_bitor down to expr_mult, by _binary_level, and expr_atom *)

Levels == << {"|"}, {"^"}, {"&"}, {"<<", ">>"}, {"+", "-"}, {"*", "/", "%"} >>

RECURSIVE Level(_, _, _), Rest(_, _, _), Atom(_, _)

Level(ts, p, n) ==
  IF n > Len(Levels) THEN Atom(ts, p) ELSE Rest(ts, Level(ts, p, n + 1), n)

\* The loop of _binary_level: operators of one level lean to the left.
Rest(ts, left, n) ==
  IF left.ok /\ At(ts, left.pos).text \in Levels[n]
  THEN LET right == Level(ts, left.pos + 1, n + 1)
       IN  IF right.ok
           THEN Rest(ts, Ok(BinaryOp(left.node, At(ts, left.pos).text, right.node), right.pos), n)
           ELSE right
  ELSE left

\* _parse_byte_access: proto "[" offset [":" size] "]".
ByteAccess_(ts, p) ==
  LET offset == Level(ts, p + 2, 1)
      sized  == offset.ok /\ Is(ts, offset.pos, ":")
      size   == IF sized THEN At(ts, offset.pos + 1).value ELSE 1
      end    == IF sized THEN offset.pos + 2 ELSE offset.pos
  IN  IF offset.ok /\ size \in {1, 2, 4}
      THEN Consume(ts, Ok(Byte(At(ts, p).text, offset.node, size), end), "]")
      ELSE SyntaxError

Atom(ts, p) ==
  LET t == At(ts, p)
  IN  CASE t.text = "("       -> Consume(ts, Level(ts, p + 1, 1), ")")
        [] t.text = "-"       -> LET r == Atom(ts, p + 1)
                                 IN  IF r.ok THEN Ok(BinaryOp(Number(0), "-", r.node), r.pos) ELSE r
        [] t.type = "NUMBER"  -> Ok(Number(t.value), p + 1)
        [] t.text = "len"     -> Ok(Length, p + 1)
        [] t.type = "FIELD"   -> Ok(Field(t.text), p + 1)
        [] t.type \in Protocols -> IF Is(ts, p + 1, "[") THEN ByteAccess_(ts, p)
                                   ELSE Ok(Protocol_(t.text), p + 1)
        [] t.type = "ADDRESS"    -> Ok(Literal(t.value.kind, t.value.words), p + 1)
        [] t.type = "IDENTIFIER" -> Ok(Literal("name", <<>>), p + 1)
        [] OTHER              -> SyntaxError

Relation(ts, p) ==
  LET left == Level(ts, p, 1)
  IN  IF left.ok /\ At(ts, left.pos).type = "REL_OP"
      THEN LET right == Level(ts, left.pos + 1, 1)
           IN  IF right.ok
               THEN Ok(BinaryOp(left.node, At(ts, left.pos).text, right.node), right.pos)
               ELSE right
      ELSE left

-----------------------------------------------------------------------------
(* Logic: expr_or, expr_and, expr_not, expr_primary *)

RECURSIVE Joined(_, _, _), JoinedRest(_, _, _), ExprNot(_, _)

\* expr_or for "or", expr_and for "and".
Joined(ts, p, op) ==
  JoinedRest(ts, IF op = "or" THEN Joined(ts, p, "and") ELSE ExprNot(ts, p), op)

JoinedRest(ts, left, op) ==
  IF left.ok /\ Is(ts, left.pos, op)
  THEN LET right == IF op = "or" THEN Joined(ts, left.pos + 1, "and") ELSE ExprNot(ts, left.pos + 1)
       IN  IF right.ok THEN JoinedRest(ts, Ok(BinaryOp(left.node, op, right.node), right.pos), op)
           ELSE right
  ELSE left

\* Variants named after a mistake are not part of the parser: each is what a
\* plausible bug would make of the definition that follows it.
PrimaryOnce(ts, p) ==
  CASE Is(ts, p, "(") -> Consume(ts, Joined(ts, p + 1, "or"), ")")
    [] ~Is(ts, p, "(") /\ StartsQualifierRule(ts, p) -> QualifierRule(ts, p)
    [] OTHER -> Relation(ts, p)

\* A parenthesis is tried as a filter; if that fails, or an operator follows it, the
\* parser goes back and reads it as arithmetic.
Primary(ts, p) ==
  LET group == Consume(ts, Joined(ts, p + 1, "or"), ")")
  IN  CASE Is(ts, p, "(") /\ group.ok /\ At(ts, group.pos).type \notin {"REL_OP", "MATH_OP"} -> group
        [] ~Is(ts, p, "(") /\ StartsQualifierRule(ts, p) -> QualifierRule(ts, p)
        [] OTHER -> Relation(ts, p)

ExprNot(ts, p) ==
  IF Is(ts, p, "not")
  THEN LET r == ExprNot(ts, p + 1) IN IF r.ok THEN Ok(UnaryOp(r.node), r.pos) ELSE r
  ELSE Primary(ts, p)

\* parse: the whole filter has to be read.
Parse(ts) ==
  LET r == Joined(ts, 1, "or")
  IN  IF r.ok /\ r.pos = Len(ts) + 1 THEN r ELSE SyntaxError
=============================================================================
