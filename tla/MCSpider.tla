------------------------------ MODULE MCSpider ------------------------------
(* Instances of Spider for TLC: small webs, and the crawls of them.            *)
EXTENDS Spider

CONSTANTS home, a, b, c, d, e

Web(h, links_a, links_b, links_c) ==
  (home :> h) @@ (a :> links_a) @@ (b :> links_b) @@ (c :> links_c) @@ (d :> <<c>>) @@ (e :> <<>>)

\* A diamond that links back: c is two steps away along two paths.
Diamond == Web(<<a, b, a>>, <<c, home>>, <<c, b>>, <<a, home>>)

\* e is three steps away by a, four by b: c may be found at either depth.
Detour == Web(<<a, b>>, <<c>>, <<d>>, <<e>>)

\* Every web of three pages, with the links of a page in one order.
Lists == {<<>>, <<home>>, <<a>>, <<b>>, <<a, home>>, <<b, home>>, <<b, a>>, <<b, a, home>>}
Tiny == {Web(x, y, z, <<>>) : x \in Lists, y \in Lists, z \in Lists}

Crawl(pages, depth, max, workers, faults) ==
  [ start |-> home, max_pages |-> max, max_depth |-> depth, max_workers |-> workers,
    pages |-> pages, faults |-> faults ]

MCCrawls ==
  {Crawl(Diamond, n, m, w, TRUE) : n \in 0..3, m \in {0, 2, 5}, w \in 1..3}
  \cup {Crawl(Detour, 3, m, w, TRUE) : m \in {3, 9}, w \in 1..3}
  \cup {Crawl(p, 2, 5, 2, FALSE) : p \in Tiny}
=============================================================================
