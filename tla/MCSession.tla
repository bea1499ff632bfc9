----------------------------- MODULE MCSession -----------------------------
(* Instances of Session for TLC: sixteen addresses of two digits, in base 4.   *)
EXTENDS Session

CONSTANTS known, plain, odd, lost   \* names: a listed ending, none, odd, unresolved

MCresolve_hostname == [n \in Names |-> CASE n = known -> 6 [] n = plain -> 9
                                         [] n = odd -> 3   [] n = lost -> NoAddress]

MCtop_1000_ports == <<4, 1, 5>>
MCtop_100_ports == <<5>>

One(x)     == [kind |-> "address", addr |-> x]
Name(n)    == [kind |-> "name", name |-> n]
Cidr(x, p) == [kind |-> "cidr", addr |-> x, prefix |-> p]
Octets2(a, b, c, d) == <<[lo |-> a, hi |-> b], [lo |-> c, hi |-> d]>>
Range2(a, b, c, d)  == [kind |-> "range", octets |-> Octets2(a, b, c, d)]
Net(a, b, c, d, p)  == [kind |-> "net", octets |-> Octets2(a, b, c, d), prefix |-> p]
Full(x, y) == [kind |-> "full", from |-> x, to |-> y]
Pair(x, y) == [kind |-> "pair", from |-> x, to |-> y]

\* Every kind of item, in and out of bounds, below and above the limit.
SomeItems ==
  {One(6), Name(known), Name(plain), Name(odd), Name(lost), Full(5, 9), Pair(6, 9)}
  \cup {Cidr(6, p) : p \in 0..5}
  \cup {Range2(1, 2, 0, 3), Range2(0, 3, 0, 3), Range2(2, 1, 0, 0), Range2(1, 1, 3, 4), Range2(1, 1, 1, 3)}
  \cup {Net(1, 2, 0, 0, p) : p \in 0..5} \cup {Net(0, 1, 1, 3, 2), Net(0, 3, 2, 2, 2), Net(3, 0, 0, 0, 3)}

P(a, b) == [lo |-> a, hi |-> b]
SomePorts == {<<>>, <<P(2, 3)>>, <<P(2, 2), P(4, 9)>>, <<P(0, 2)>>, <<P(3, 2), P(1, 4)>>, <<P(2, 3), P(3, 4), P(1, 1)>>}

\* The command line with every option at its default.
Default ==
  [ target |-> <<>>, exclude |-> <<>>, port |-> <<>>, scan_type |-> "TCP", speed |-> "normal",
    F |-> FALSE, no_ping |-> FALSE, max_retries |-> 1, agressive |-> FALSE, shuffle |-> FALSE,
    rff |-> <<>>, rffp |-> <<>>, load |-> FALSE, save |-> FALSE, until |-> "end" ]
T(items) == [Default EXCEPT !.target = items]

\* One item and two, without and with one that is excluded.
ParseArgs ==
  {[T(<<i>>) EXCEPT !.exclude = x] : i \in SomeItems, x \in {<<>>} \cup {<<j>> : j \in SomeItems}}
  \cup {[T(<<i, j>>) EXCEPT !.exclude = <<Cidr(6, 3)>>, !.no_ping = TRUE] : i \in SomeItems, j \in SomeItems}
  \cup {[Default EXCEPT !.rff = <<<<i>>, <<>>, <<One(4), i>>>>, !.until = u] : i \in SomeItems, u \in {"lst", "end"}}

Target == T(<<Net(1, 2, 0, 0, 3), Name(known)>>)
PortArgs ==
  {[Target EXCEPT !.port = p, !.shuffle = TRUE] : p \in SomePorts}
  \cup {[Target EXCEPT !.port = p, !.rffp = <<q, <<>>, p>>, !.until = u, !.F = f] :
          p \in SomePorts, q \in SomePorts, u \in {"port_lst", "sn"}, f \in BOOLEAN}

SaveArgs ==
  {[Target EXCEPT !.save = TRUE, !.port = p, !.exclude = x, !.scan_type = t, !.speed = v,
                  !.F = f, !.no_ping = n, !.max_retries = 3, !.agressive = a] :
     p \in {<<>>, <<P(2, 2), P(4, 9)>>}, x \in {<<>>, <<One(9)>>}, t \in {"TCP", "FIN", "PING"},
     v \in {"normal", "slow"}, f \in BOOLEAN, n \in BOOLEAN, a \in BOOLEAN}
  \cup {[Target EXCEPT !.save = TRUE, !.rffp = <<<<P(2, 3)>>>>], [Default EXCEPT !.save = TRUE, !.rff = <<<<One(4)>>>>]}

MCFirstArgs == ParseArgs \cup PortArgs \cup SaveArgs
Load == [Default EXCEPT !.load = TRUE]
MCSecondArgs == {Load, [Load EXCEPT !.scan_type = "SYN", !.port = <<P(1, 1)>>, !.save = TRUE]}
=============================================================================
