---------------------------- MODULE Spider_proofs ----------------------------
(***************************************************************************)
(* Theorems about Spider, for any set of crawls: any web, any number of    *)
(* pages, depth and workers, and any failures.                             *)
(***************************************************************************)
EXTENDS Spider, SequenceTheorems, FiniteSetTheorems, TLAPS

Link == [url : Urls, depth : 0..crawl.max_depth]
Call == [url : Urls, depth : 0..crawl.max_depth, state : States, result : BOOLEAN]

-----------------------------------------------------------------------------
(* Sequences *)

\* RemoveAt takes one element out and moves those behind it one place down.
LEMMA RemoveAtProperties ==
  ASSUME NEW S, NEW s \in Seq(S), NEW i \in 1..Len(s)
  PROVE  /\ RemoveAt(s, i) \in Seq(S)
         /\ Len(RemoveAt(s, i)) = Len(s) - 1
         /\ \A j \in 1 .. Len(s) - 1 : RemoveAt(s, i)[j] = s[IF j < i THEN j ELSE j + 1]
<1> DEFINE front == SubSeq(s, 1, i - 1)
           back  == SubSeq(s, i + 1, Len(s))
<1>1. Len(s) \in Nat /\ i \in Int /\ \A j \in 1..Len(s) : s[j] \in S
  OBVIOUS
<1>2. /\ front \in Seq(S) /\ Len(front) = i - 1
      /\ \A j \in 1 .. i - 1 : front[j] = s[j]
  <2>1. \A j \in 1 .. i - 1 : s[j] \in S
    BY <1>1
  <2>2. /\ front \in Seq(S)
        /\ Len(front) = IF 1 <= i - 1 THEN (i - 1) - 1 + 1 ELSE 0
        /\ \A j \in 1 .. (i - 1) - 1 + 1 : front[j] = s[1 + j - 1]
    BY <1>1, <2>1, SubSeqProperties
  <2> QED
    BY <1>1, <2>2
<1>3. /\ back \in Seq(S) /\ Len(back) = Len(s) - i
      /\ \A j \in 1 .. Len(s) - i : back[j] = s[i + j]
  <2>1. \A j \in i + 1 .. Len(s) : s[j] \in S
    BY <1>1
  <2>2. /\ back \in Seq(S)
        /\ Len(back) = IF i + 1 <= Len(s) THEN Len(s) - (i + 1) + 1 ELSE 0
        /\ \A j \in 1 .. Len(s) - (i + 1) + 1 : back[j] = s[(i + 1) + j - 1]
    BY <1>1, <2>1, SubSeqProperties
  <2> QED
    BY <1>1, <2>2
<1> HIDE DEF front, back
<1>4. /\ front \o back \in Seq(S)
      /\ Len(front \o back) = Len(front) + Len(back)
      /\ \A j \in 1 .. Len(front) + Len(back) :
           (front \o back)[j] = IF j <= Len(front) THEN front[j] ELSE back[j - Len(front)]
  BY <1>2, <1>3, ConcatProperties
<1>5. RemoveAt(s, i) = front \o back
  BY DEF RemoveAt, front, back
<1>6. ASSUME NEW j \in 1 .. Len(s) - 1
      PROVE  (front \o back)[j] = s[IF j < i THEN j ELSE j + 1]
  <2>1. CASE j < i
    BY <1>1, <1>2, <1>3, <1>4, <2>1
  <2>2. CASE ~(j < i)
    <3> DEFINE k == j - (i - 1)
    <3>1. k \in 1 .. Len(s) - i /\ i + k = j + 1 /\ ~(j <= i - 1)
      BY <1>1, <2>2
    <3>2. (front \o back)[j] = back[k]
      BY <1>1, <1>2, <1>3, <1>4, <3>1
    <3> HIDE DEF k
    <3>3. back[k] = s[j + 1]
      BY <1>3, <3>1
    <3> QED
      BY <2>2, <3>2, <3>3
  <2> QED
    BY <2>1, <2>2
<1>7. (i - 1) + (Len(s) - i) = Len(s) - 1
  BY <1>1
<1> QED
  BY <1>2, <1>3, <1>4, <1>5, <1>6, <1>7

-----------------------------------------------------------------------------
(* Type correctness *)

\* What the main thread knows at each of its labels: there is a link to submit, the
\* call at hand has returned, and only one that found a page has links left.
Control ==
  /\ pc = "submit" => queue # <<>>
  /\ pc \in {"links", "known"} =>
       /\ at \in DOMAIN futures
       /\ futures[at].state = "done"
       /\ links # <<>> => futures[at].result /\ futures[at].depth < crawl.max_depth
  /\ pc = "known" => links # <<>>

TypeInv == TypeOK /\ Control

LEMMA CrawlFacts ==
  ASSUME TypeOK
  PROVE  /\ crawl.start \in Urls
         /\ crawl.max_pages \in Nat /\ crawl.max_depth \in Nat
         /\ crawl.max_workers \in Nat /\ crawl.max_workers > 0
         /\ \A u \in Urls : crawl.pages[u] \in Seq(Urls)
  BY CrawlAssumption DEF TypeOK, CrawlType

\* A worker's step: it changes its own call, and what it adds to the pool.
LEMMA WorkerEffect ==
  ASSUME TypeOK, NEW i \in DOMAIN futures, Worker(i)
  PROVE  /\ UNCHANGED <<crawl, queue, pc, at, links>>
         /\ futures' \in Seq(Call) /\ Len(futures') = Len(futures)
         /\ DOMAIN futures' = DOMAIN futures
         /\ \A j \in DOMAIN futures : /\ futures'[j].url = futures[j].url
                                      /\ futures'[j].depth = futures[j].depth
                                      /\ j # i => futures'[j] = futures[j]
         /\ \/ /\ futures[i].state = "asking"
               /\ futures'[i].state = "noted" /\ futures'[i].result
               /\ visited' = visited \cup {futures[i].url}
               /\ results' = Append(results, [url |-> futures[i].url,
                                              depth |-> futures[i].depth])
            \/ /\ futures[i].state = "asking"
               /\ futures'[i].state = "noted" /\ futures'[i].result = futures[i].result
               /\ visited' = visited \cup {futures[i].url}
               /\ results' = results
            \/ /\ futures[i].state = "noted"
               /\ futures'[i].state = "done" /\ futures'[i].result = futures[i].result
               /\ UNCHANGED <<visited, results>>
<1> DEFINE f == futures[i]
           With(state, result) == [url |-> f.url, depth |-> f.depth, state |-> state,
                                   result |-> result]
<1>1. futures \in Seq(Call) /\ f \in Call /\ i \in 1..Len(futures)
  <2>1. futures \in Seq(Call)
    BY DEF TypeOK, Call
  <2> QED
    BY <2>1
<1>2. \A c \in Call : /\ [futures EXCEPT ![i] = c] \in Seq(Call)
                      /\ Len([futures EXCEPT ![i] = c]) = Len(futures)
                      /\ \A j \in 1..Len(futures) :
                           [futures EXCEPT ![i] = c][j] = IF j = i THEN c ELSE futures[j]
  BY <1>1, ExceptSeq
<1>3. With("noted", TRUE) \in Call /\ With("noted", f.result) \in Call
      /\ With("done", f.result) \in Call
  BY <1>1 DEF Call, States
<1>4. /\ PageFound(i) => futures' = [futures EXCEPT ![i] = With("noted", TRUE)]
      /\ PageFails(i) => futures' = [futures EXCEPT ![i] = With("noted", f.result)]
      /\ PageReturns(i) => futures' = [futures EXCEPT ![i] = With("done", f.result)]
  <2>1. PageFound(i) => futures' = [futures EXCEPT ![i] = With("noted", TRUE)]
    BY <1>1 DEF PageFound, Call
  <2>2. PageFails(i) => futures' = [futures EXCEPT ![i] = With("noted", f.result)]
    BY <1>1 DEF PageFails, Call
  <2>3. PageReturns(i) => futures' = [futures EXCEPT ![i] = With("done", f.result)]
    BY <1>1 DEF PageReturns, Call
  <2> QED
    BY <2>1, <2>2, <2>3
<1> HIDE DEF f
<1>5. ASSUME NEW c \in Call, futures' = [futures EXCEPT ![i] = c],
             c.url = f.url, c.depth = f.depth
      PROVE  /\ futures' \in Seq(Call) /\ Len(futures') = Len(futures)
             /\ DOMAIN futures' = DOMAIN futures
             /\ \A j \in DOMAIN futures : /\ futures'[j].url = futures[j].url
                                          /\ futures'[j].depth = futures[j].depth
                                          /\ j # i => futures'[j] = futures[j]
             /\ futures'[i] = c
  BY <1>1, <1>2, <1>5 DEF f
<1>6. CASE PageFound(i)
  <2>1. UNCHANGED <<crawl, queue, pc, at, links>>
    BY <1>6 DEF PageFound, main
  <2> DEFINE c == With("noted", TRUE)
  <2>2. /\ c \in Call /\ c.url = f.url /\ c.depth = f.depth
        /\ c.state = "noted" /\ c.result = TRUE
        /\ futures' = [futures EXCEPT ![i] = c]
    BY <1>3, <1>4, <1>6
  <2> HIDE DEF c
  <2> QED
    BY <1>5, <1>6, <2>1, <2>2 DEF PageFound, f
<1>7. CASE PageFails(i)
  <2>1. UNCHANGED <<crawl, queue, pc, at, links>>
    BY <1>7 DEF PageFails, main
  <2> DEFINE c == With("noted", f.result)
  <2>2. /\ c \in Call /\ c.url = f.url /\ c.depth = f.depth
        /\ c.state = "noted" /\ c.result = f.result
        /\ futures' = [futures EXCEPT ![i] = c]
    BY <1>3, <1>4, <1>7
  <2> HIDE DEF c
  <2> QED
    BY <1>5, <1>7, <2>1, <2>2 DEF PageFails, f
<1>8. CASE PageReturns(i)
  <2>1. UNCHANGED <<crawl, queue, pc, at, links>>
    BY <1>8 DEF PageReturns, main
  <2> DEFINE c == With("done", f.result)
  <2>2. /\ c \in Call /\ c.url = f.url /\ c.depth = f.depth
        /\ c.state = "done" /\ c.result = f.result
        /\ futures' = [futures EXCEPT ![i] = c]
    BY <1>3, <1>4, <1>8
  <2> HIDE DEF c
  <2> QED
    BY <1>5, <1>8, <2>1, <2>2 DEF PageReturns, pool, f
<1> QED
  BY <1>6, <1>7, <1>8 DEF Worker

\* The types under names, as the steps below use them.
LEMMA Types ==
  ASSUME TypeOK
  PROVE  /\ queue \in Seq(Link) /\ results \in Seq(Link) /\ futures \in Seq(Call)
         /\ links \in Seq(Urls) /\ at \in 1 .. Len(futures) + 1
         /\ DOMAIN futures = 1..Len(futures) /\ Len(futures) \in Nat
         /\ DOMAIN results = 1..Len(results) /\ Len(results) \in Nat
         /\ DOMAIN queue = 1..Len(queue) /\ Len(queue) \in Nat
         /\ \A i \in DOMAIN futures : futures[i] \in Call
         /\ \A i \in DOMAIN results : results[i] \in Link
         /\ \A i \in DOMAIN queue : queue[i] \in Link
<1>1. /\ queue \in Seq(Link) /\ results \in Seq(Link) /\ futures \in Seq(Call)
      /\ links \in Seq(Urls) /\ at \in 1 .. Len(futures) + 1
  BY DEF TypeOK, Link, Call
<1> QED
  BY <1>1

\* What each step of the main thread that moves data makes of the lists.
LEMMA SubmitEffect ==
  ASSUME TypeInv, Submit
  PROVE  /\ Head(queue) \in Link /\ Tail(queue) \in Seq(Link)
         /\ queue # <<>> /\ queue' = Tail(queue)
         /\ UNCHANGED <<crawl, visited, results, at, links>> /\ pc' = "fill"
         /\ \/ Head(queue).url \in visited /\ futures' = futures
            \/ /\ Head(queue).url \notin visited
               /\ \E c \in Call : /\ c.url = Head(queue).url /\ c.depth = Head(queue).depth
                                  /\ c.state = "asking" /\ c.result = FALSE
                                  /\ futures' = Append(futures, c)
<1> DEFINE next == Head(queue)
           c == [url |-> next.url, depth |-> next.depth, state |-> "asking", result |-> FALSE]
<1>1. queue \in Seq(Link) /\ queue # <<>>
  BY Types DEF TypeInv, Control, Submit
<1>2. next \in Link /\ Tail(queue) \in Seq(Link)
  BY <1>1, HeadTailProperties
<1>3. crawl.max_depth \in Nat
  BY CrawlFacts DEF TypeInv
<1>4. c \in Call /\ c.url = next.url /\ c.depth = next.depth /\ c.state = "asking"
      /\ c.result = FALSE /\ ~(next.depth > crawl.max_depth)
  BY <1>2, <1>3 DEF Link, Call, States
<1>5. /\ queue' = Tail(queue) /\ UNCHANGED <<crawl, visited, results, at, links>>
      /\ pc' = "fill"
  BY DEF Submit, Goto, pool
<1>6. futures' = IF next.url \in visited THEN futures ELSE Append(futures, c)
  BY <1>4 DEF Submit
<1> HIDE DEF next, c
<1>7. Head(queue) = next
  BY DEF next
<1> QED
  BY <1>1, <1>2, <1>4, <1>5, <1>6, <1>7

LEMMA DiscardEffect ==
  ASSUME TypeInv, Discard
  PROVE  /\ at \in 1..Len(futures) /\ futures[at].state = "done" /\ links = <<>>
         /\ futures' \in Seq(Call) /\ Len(futures') = Len(futures) - 1
         /\ DOMAIN futures' = 1 .. Len(futures) - 1
         /\ \A j \in 1 .. Len(futures) - 1 :
              futures'[j] = futures[IF j < at THEN j ELSE j + 1]
         /\ UNCHANGED <<crawl, queue, visited, results, at, links>> /\ pc' = "collect"
<1>1. futures \in Seq(Call) /\ DOMAIN futures = 1..Len(futures)
  BY Types DEF TypeInv
<1>2. at \in 1..Len(futures) /\ futures[at].state = "done" /\ links = <<>>
  BY <1>1 DEF TypeInv, Control, Discard
<1>3. futures' = RemoveAt(futures, at)
  BY DEF Discard
<1>4. /\ futures' \in Seq(Call) /\ Len(futures') = Len(futures) - 1
      /\ \A j \in 1 .. Len(futures) - 1 :
           futures'[j] = futures[IF j < at THEN j ELSE j + 1]
  BY <1>1, <1>2, <1>3, RemoveAtProperties
<1>5. UNCHANGED <<crawl, queue, visited, results, at, links>> /\ pc' = "collect"
  BY DEF Discard, Goto, pool
<1> QED
  BY <1>2, <1>4, <1>5

LEMMA EnqueueEffect ==
  ASSUME TypeInv, Enqueue
  PROVE  /\ at \in DOMAIN futures /\ futures[at].result
         /\ links # <<>> /\ Head(links) \in Urls /\ links' = Tail(links)
         /\ links' \in Seq(Urls)
         /\ UNCHANGED <<crawl, futures, visited, results, at>> /\ pc' = "links"
         /\ \/ Known(Head(links)) /\ queue' = queue
            \/ /\ ~Known(Head(links))
               /\ \E l \in Link : /\ l.url = Head(links) /\ l.depth = futures[at].depth + 1
                                  /\ queue' = Append(queue, l)
<1> DEFINE l == [url |-> Head(links), depth |-> futures[at].depth + 1]
<1>1. /\ at \in DOMAIN futures /\ futures[at].result /\ links # <<>>
      /\ futures[at].depth < crawl.max_depth
  BY DEF TypeInv, Control, Enqueue
<1>2. Head(links) \in Urls /\ Tail(links) \in Seq(Urls)
  BY <1>1, Types, HeadTailProperties DEF TypeInv
<1>3. futures[at].depth \in Nat /\ crawl.max_depth \in Nat
  BY <1>1, Types, CrawlFacts DEF TypeInv, Call
<1>4. l \in Link
  BY <1>1, <1>2, <1>3 DEF Link
<1>5. /\ UNCHANGED <<crawl, futures, visited, results, at>> /\ pc' = "links"
      /\ links' = Tail(links)
      /\ queue' = IF Known(Head(links)) THEN queue ELSE Append(queue, l)
  BY DEF Enqueue, pool
<1>6. l.url = Head(links) /\ l.depth = futures[at].depth + 1
  OBVIOUS
<1> HIDE DEF l
<1> QED
  BY <1>1, <1>2, <1>4, <1>5, <1>6

LEMMA InitType == Init => TypeInv
<1> SUFFICES ASSUME Init PROVE TypeInv
  OBVIOUS
<1>1. crawl \in Crawls /\ crawl.start \in Urls /\ crawl.max_depth \in Nat
  BY CrawlAssumption DEF Init, CrawlType
<1>2. [url |-> crawl.start, depth |-> 0] \in [url : Urls, depth : 0..crawl.max_depth]
  BY <1>1
<1>3. queue \in Seq([url : Urls, depth : 0..crawl.max_depth])
  BY <1>2 DEF Init
<1> QED
  BY <1>1, <1>3 DEF Init, TypeInv, TypeOK, Control

LEMMA NextType == TypeInv /\ [Next]_vars => TypeInv'
<1> SUFFICES ASSUME TypeInv, [Next]_vars PROVE TypeInv'
  OBVIOUS
<1>1. /\ queue \in Seq(Link) /\ results \in Seq(Link) /\ futures \in Seq(Call)
      /\ links \in Seq(Urls) /\ at \in 1 .. Len(futures) + 1
      /\ DOMAIN futures = 1..Len(futures) /\ Len(futures) \in Nat
      /\ \A i \in DOMAIN futures : futures[i] \in Call
      /\ visited \subseteq Urls /\ crawl \in Crawls
      /\ pc \in {"loop", "fill", "submit", "wait", "collect", "links", "known",
                 "shutdown", "done"}
  BY Types DEF TypeInv, TypeOK
<1> DEFINE Typed ==
        /\ crawl' = crawl
        /\ queue' \in Seq(Link) /\ results' \in Seq(Link) /\ futures' \in Seq(Call)
        /\ links' \in Seq(Urls) /\ at' \in 1 .. Len(futures') + 1
        /\ visited' \subseteq Urls
        /\ pc' \in {"loop", "fill", "submit", "wait", "collect", "links", "known",
                    "shutdown", "done"}
        /\ Control'
<1>2. SUFFICES Typed
  BY <1>1 DEF TypeInv, TypeOK, Link, Call
<1>3. CASE Loop \/ Fill \/ Wait \/ Collected \/ Shutdown
  BY <1>1, <1>3 DEF Loop, Fill, Wait, Collected, Shutdown, Goto, pool, Control, Room, Full
<1>4. CASE Submit
  <2>1. /\ UNCHANGED <<crawl, visited, results, at, links>> /\ pc' = "fill"
        /\ queue' \in Seq(Link)
        /\ futures' = futures \/ \E c \in Call : futures' = Append(futures, c)
    BY <1>4, SubmitEffect
  <2>2. futures' \in Seq(Call) /\ Len(futures') \in {Len(futures), Len(futures) + 1}
    <3>1. ASSUME NEW c \in Call
          PROVE  Append(futures, c) \in Seq(Call) /\ Len(Append(futures, c)) = Len(futures) + 1
      BY <1>1, AppendProperties
    <3> QED
      BY <1>1, <2>1, <3>1
  <2> QED
    BY <1>1, <2>1, <2>2 DEF Control
<1>5. CASE Collect
  <2>1. /\ UNCHANGED <<crawl, queue, futures, visited, results>>
        /\ at \in DOMAIN futures
        /\ \/ /\ futures[at].state = "done" /\ pc' = "links" /\ at' = at
              /\ links' = IF futures[at].result /\ futures[at].depth < crawl.max_depth
                          THEN crawl.pages[futures[at].url] ELSE <<>>
           \/ pc' = "collect" /\ at' = at + 1 /\ links' = links
    BY <1>5 DEF Collect, pool
  <2>2. crawl.pages[futures[at].url] \in Seq(Urls)
    BY <1>1, <2>1, CrawlFacts DEF TypeInv, Call
  <2>3. links' \in Seq(Urls)
    <3>1. links' \in {links, crawl.pages[futures[at].url], <<>>}
      BY <2>1
    <3>2. <<>> \in Seq(Urls)
      BY EmptySeq
    <3> QED
      BY <1>1, <2>2, <3>1, <3>2, Zenon
  <2>4. at' \in 1 .. Len(futures) + 1
    BY <1>1, <2>1
  <2>5. Control'
    BY <1>1, <2>1 DEF Control
  <2> QED
    BY <1>1, <2>1, <2>3, <2>4, <2>5
<1>6. CASE Unvisited
  <2>1. /\ UNCHANGED <<crawl, queue, futures, visited, results, at>>
        /\ pc = "links" /\ links # <<>>
        /\ (pc' = "links" /\ links' = Tail(links)) \/ (pc' = "known" /\ links' = links)
    BY <1>6 DEF Unvisited, pool
  <2>2. Tail(links) \in Seq(Urls)
    BY <1>1, <2>1, HeadTailProperties
  <2> QED
    BY <1>1, <2>1, <2>2 DEF TypeInv, Control
<1>7. CASE Enqueue
  <2>1. queue' \in Seq(Link)
    <3>1. queue' = queue \/ \E l \in Link : queue' = Append(queue, l)
      BY <1>7, EnqueueEffect
    <3>2. \A l \in Link : Append(queue, l) \in Seq(Link)
      BY <1>1, AppendProperties
    <3> QED
      BY <1>1, <3>1, <3>2
  <2>2. futures[at].state = "done" /\ futures[at].depth < crawl.max_depth
    BY <1>7 DEF TypeInv, Control, Enqueue
  <2> QED
    BY <1>1, <1>7, <2>1, <2>2, EnqueueEffect DEF Control
<1>8. CASE Discard
  BY <1>1, <1>8, DiscardEffect DEF Control
<1>9. ASSUME NEW i \in DOMAIN futures, Worker(i)
      PROVE  Typed
  <2>1. /\ UNCHANGED <<crawl, queue, pc, at, links>>
        /\ futures' \in Seq(Call) /\ Len(futures') = Len(futures)
        /\ DOMAIN futures' = DOMAIN futures
        /\ \A j \in DOMAIN futures : /\ futures'[j].url = futures[j].url
                                     /\ futures'[j].depth = futures[j].depth
                                     /\ j # i => futures'[j] = futures[j]
        /\ futures[i].state # "done"
    BY <1>9, WorkerEffect DEF TypeInv
  <2>2. visited' \subseteq Urls /\ results' \in Seq(Link)
    <3>1. futures[i].url \in Urls /\ [url |-> futures[i].url, depth |-> futures[i].depth] \in Link
      BY <1>1 DEF Call, Link
    <3>2. \/ visited' = visited \cup {futures[i].url}
          \/ visited' = visited
      BY <1>9, WorkerEffect DEF TypeInv
    <3>3. \/ results' = Append(results, [url |-> futures[i].url, depth |-> futures[i].depth])
          \/ results' = results
      BY <1>9, WorkerEffect DEF TypeInv
    <3>4. visited' \subseteq Urls
      BY <1>1, <3>1, <3>2
    <3>5. results' \in Seq(Link)
      <4>1. Append(results, [url |-> futures[i].url, depth |-> futures[i].depth]) \in Seq(Link)
        BY <1>1, <3>1, AppendProperties
      <4> QED
        BY <1>1, <3>3, <4>1
    <3> QED
      BY <3>4, <3>5
  <2>3. Control'
    BY <2>1 DEF TypeInv, Control
  <2> QED
    BY <1>1, <2>1, <2>2, <2>3
<1>10. CASE UNCHANGED vars
  BY <1>1, <1>10 DEF vars, pool, main, TypeInv, Control
<1> QED
  BY <1>3, <1>4, <1>5, <1>6, <1>7, <1>8, <1>9, <1>10 DEF Next, Main, Terminated

\* Every variable keeps its type, for any web and any number of workers: no link is
\* followed below the greatest depth, and the index the main thread walks the calls
\* in flight with stays within them although Discard shifts them under it.
THEOREM TypeCorrect == Spec => []TypeOK
<1> QED
  BY InitType, NextType, PTL DEF Spec, TypeInv

-----------------------------------------------------------------------------
(* No address is asked for twice *)

Distinct(s) == \A i, j \in DOMAIN s : s[i].url = s[j].url => i = j

\* A link that waits is not in flight and waits once, each call has an address of its
\* own, and a call that still asks is the only one whose address was never tried.
OneCall ==
  /\ Distinct(queue) /\ Distinct(futures) /\ Distinct(results)
  /\ \A i \in DOMAIN queue, j \in DOMAIN futures : queue[i].url # futures[j].url
  /\ \A i \in DOMAIN results : results[i].url \in visited
  /\ \A i \in DOMAIN futures : futures[i].state = "asking" <=> futures[i].url \notin visited

LEMMA DistinctAppend ==
  ASSUME NEW S, NEW s \in Seq(S), NEW x \in S, Distinct(s),
         \A i \in DOMAIN s : s[i].url # x.url
  PROVE  Distinct(Append(s, x))
<1>1. /\ DOMAIN s = 1..Len(s) /\ Len(s) \in Nat
      /\ DOMAIN Append(s, x) = 1 .. Len(s) + 1
      /\ Append(s, x)[Len(s) + 1] = x
      /\ \A i \in 1..Len(s) : Append(s, x)[i] = s[i]
  BY AppendProperties
<1>2. \A i \in 1 .. Len(s) + 1 : i \in 1..Len(s) \/ i = Len(s) + 1
  BY <1>1
<1> QED
  BY <1>1, <1>2 DEF Distinct

LEMMA OneCallSubmit ==
  ASSUME TypeInv, OneCall, Submit
  PROVE  OneCall'
<1> DEFINE next == Head(queue)
<1>1. /\ queue \in Seq(Link) /\ futures \in Seq(Call)
      /\ DOMAIN queue = 1..Len(queue) /\ Len(queue) \in Nat
      /\ DOMAIN futures = 1..Len(futures) /\ Len(futures) \in Nat
  BY Types DEF TypeInv
<1>2. /\ queue # <<>> /\ queue' = Tail(queue) /\ UNCHANGED <<visited, results>>
      /\ \/ futures' = futures
         \/ /\ next.url \notin visited
            /\ \E c \in Call : /\ c.url = next.url /\ c.state = "asking"
                               /\ futures' = Append(futures, c)
  BY SubmitEffect
<1>3. Len(queue) >= 1 /\ next = queue[1] /\ 1 \in DOMAIN queue
  BY <1>1, <1>2
<1>4. /\ DOMAIN queue' = 1 .. Len(queue) - 1
      /\ \A i \in DOMAIN queue' : /\ queue'[i] = queue[i + 1]
                                  /\ i + 1 \in DOMAIN queue /\ i + 1 # 1
  BY <1>1, <1>2, <1>3, HeadTailProperties
<1>5. Distinct(queue')
  BY <1>1, <1>4 DEF Distinct, OneCall
<1>6. \A i \in DOMAIN queue' : queue'[i].url # next.url
  BY <1>3, <1>4 DEF OneCall, Distinct
<1>7. \A j \in DOMAIN futures : futures[j].url # next.url
  BY <1>3 DEF OneCall
<1>8. CASE futures' = futures
  BY <1>2, <1>4, <1>5, <1>8 DEF OneCall, Distinct
<1>9. ASSUME NEW c \in Call, c.url = next.url, c.state = "asking", next.url \notin visited,
             futures' = Append(futures, c)
      PROVE  OneCall'
  <2>1. /\ DOMAIN futures' = 1 .. Len(futures) + 1
        /\ \A i \in DOMAIN futures : futures'[i] = futures[i]
        /\ futures'[Len(futures) + 1] = c
        /\ \A i \in DOMAIN futures' : i \in DOMAIN futures \/ i = Len(futures) + 1
    BY <1>1, <1>9, AppendProperties
  <2>2. Distinct(futures')
    BY <1>1, <1>7, <1>9, DistinctAppend DEF OneCall
  <2>3. \A i \in DOMAIN queue', j \in DOMAIN futures' : queue'[i].url # futures'[j].url
    BY <1>4, <1>6, <1>9, <2>1 DEF OneCall
  <2>4. \A i \in DOMAIN futures' :
          futures'[i].state = "asking" <=> futures'[i].url \notin visited
    BY <1>9, <2>1 DEF OneCall
  <2> QED
    BY <1>2, <1>5, <2>2, <2>3, <2>4 DEF OneCall, Distinct
<1> QED
  BY <1>2, <1>8, <1>9

LEMMA OneCallEnqueue ==
  ASSUME TypeInv, OneCall, Enqueue
  PROVE  OneCall'
<1>1. queue \in Seq(Link) /\ DOMAIN queue = 1..Len(queue) /\ Len(queue) \in Nat
  BY Types DEF TypeInv
<1>2. /\ UNCHANGED <<futures, visited, results>>
      /\ \/ queue' = queue
         \/ /\ ~Known(Head(links))
            /\ \E l \in Link : l.url = Head(links) /\ queue' = Append(queue, l)
  BY EnqueueEffect
<1>3. CASE queue' = queue
  BY <1>2, <1>3 DEF OneCall, Distinct
<1>4. ASSUME NEW l \in Link, l.url = Head(links), ~Known(Head(links)),
             queue' = Append(queue, l)
      PROVE  OneCall'
  <2>1. /\ \A i \in DOMAIN queue : queue[i].url # l.url
        /\ \A i \in DOMAIN futures : futures[i].url # l.url
    BY <1>4 DEF Known, UrlsOf
  <2>2. Distinct(queue')
    BY <1>1, <1>4, <2>1, DistinctAppend DEF OneCall
  <2>3. /\ \A i \in DOMAIN queue : queue'[i] = queue[i]
        /\ queue'[Len(queue) + 1] = l
        /\ \A i \in DOMAIN queue' : i \in DOMAIN queue \/ i = Len(queue) + 1
    BY <1>1, <1>4, AppendProperties
  <2>4. \A i \in DOMAIN queue', j \in DOMAIN futures : queue'[i].url # futures[j].url
    BY <2>1, <2>3 DEF OneCall
  <2> QED
    BY <1>2, <2>2, <2>4 DEF OneCall, Distinct
<1> QED
  BY <1>2, <1>3, <1>4

LEMMA OneCallDiscard ==
  ASSUME TypeInv, OneCall, Discard
  PROVE  OneCall'
<1> DEFINE was(j) == IF j < at THEN j ELSE j + 1
<1>1. /\ at \in 1..Len(futures) /\ Len(futures) \in Nat /\ DOMAIN futures = 1..Len(futures)
      /\ DOMAIN futures' = 1 .. Len(futures) - 1
      /\ \A j \in DOMAIN futures' : futures'[j] = futures[was(j)]
      /\ UNCHANGED <<queue, visited, results>>
  BY Types, DiscardEffect DEF TypeInv
<1>2. /\ \A j \in DOMAIN futures' : was(j) \in DOMAIN futures
      /\ \A i, j \in DOMAIN futures' : was(i) = was(j) => i = j
  BY <1>1
<1> HIDE DEF was
<1> QED
  BY <1>1, <1>2 DEF OneCall, Distinct

LEMMA OneCallWorker ==
  ASSUME TypeInv, OneCall, NEW i \in DOMAIN futures, Worker(i)
  PROVE  OneCall'
<1>1. /\ UNCHANGED queue
      /\ DOMAIN futures' = DOMAIN futures
      /\ \A j \in DOMAIN futures : /\ futures'[j].url = futures[j].url
                                   /\ j # i => futures'[j] = futures[j]
      /\ \/ /\ futures[i].state = "asking" /\ futures'[i].state = "noted"
            /\ visited' = visited \cup {futures[i].url}
            /\ \/ results' = results
               \/ results' = Append(results, [url |-> futures[i].url,
                                              depth |-> futures[i].depth])
         \/ /\ futures[i].state = "noted" /\ futures'[i].state = "done"
            /\ UNCHANGED <<visited, results>>
  BY WorkerEffect DEF TypeInv
<1>2. /\ Distinct(queue') /\ Distinct(futures')
      /\ \A j \in DOMAIN queue', k \in DOMAIN futures' : queue'[j].url # futures'[k].url
  BY <1>1 DEF OneCall, Distinct
<1>3. \A j \in DOMAIN futures' :
        futures'[j].state = "asking" <=> futures'[j].url \notin visited'
  BY <1>1 DEF OneCall, Distinct
<1>4. Distinct(results') /\ \A j \in DOMAIN results' : results'[j].url \in visited'
  <2>1. CASE results' = results
    BY <1>1, <2>1 DEF OneCall, Distinct
  <2>2. CASE results' # results
    <3> DEFINE r == [url |-> futures[i].url, depth |-> futures[i].depth]
    <3>1. /\ results' = Append(results, r) /\ futures[i].state = "asking"
          /\ visited' = visited \cup {r.url}
      BY <1>1, <2>2
    <3>2. results \in Seq(Link) /\ r \in Link
      BY Types DEF TypeInv, Call, Link
    <3>3. \A j \in DOMAIN results : results[j].url # r.url
      BY <3>1 DEF OneCall
    <3> HIDE DEF r
    <3>4. Distinct(results')
      BY <3>1, <3>2, <3>3, DistinctAppend DEF OneCall
    <3>5. /\ \A j \in DOMAIN results : results'[j] = results[j]
          /\ results'[Len(results) + 1] = r
          /\ \A j \in DOMAIN results' : j \in DOMAIN results \/ j = Len(results) + 1
      BY <3>1, <3>2, AppendProperties
    <3> QED
      BY <3>1, <3>4, <3>5 DEF OneCall
  <2> QED
    BY <2>1, <2>2
<1> QED
  BY <1>2, <1>3, <1>4 DEF OneCall, Distinct

LEMMA NextOneCall == TypeInv /\ OneCall /\ [Next]_vars => OneCall'
<1> SUFFICES ASSUME TypeInv, OneCall, [Next]_vars PROVE OneCall'
  OBVIOUS
<1>1. CASE UNCHANGED <<queue, futures, visited, results>>
  BY <1>1 DEF OneCall, Distinct
<1>2. CASE Loop \/ Fill \/ Wait \/ Collect \/ Collected \/ Unvisited \/ Shutdown
  BY <1>1, <1>2 DEF Loop, Fill, Wait, Collect, Collected, Unvisited, Shutdown, pool
<1>3. CASE UNCHANGED vars
  BY <1>1, <1>3 DEF vars, pool
<1> QED
  BY <1>2, <1>3, OneCallSubmit, OneCallEnqueue, OneCallDiscard, OneCallWorker
     DEF Next, Main, Terminated

\* The crawler asks for no address twice, for any web and any number of workers, although
\* it looks a link up in visited, in the queue and in the calls in flight one after the
\* other while the workers move addresses from one to the next.
THEOREM AskedOnceHolds == Spec => []AskedOnce
<1>1. Init => OneCall
  BY DEF Init, OneCall, Distinct
<1>2. OneCall => AskedOnce
  BY DEF OneCall, Distinct, AskedOnce
<1> QED
  BY <1>1, <1>2, InitType, NextType, NextOneCall, PTL DEF Spec

-----------------------------------------------------------------------------
(* How far the results may run over max_pages *)

Asking     == {i \in DOMAIN futures : futures[i].state = "asking"}
AskingUrls == {futures[i].url : i \in Asking}

\* The pages found and those that may still be.
Sent == Len(results) + Cardinality(AskingUrls)

\* The condition of Fill was true of fewer than max_pages results, and one call fewer
\* than the pool has workers; the workers turn a call into a result at most.
Bounded ==
  /\ Len(futures) <= crawl.max_workers
  /\ Sent < crawl.max_pages + crawl.max_workers
  /\ pc = "submit" => /\ Len(futures) < crawl.max_workers
                      /\ Sent < crawl.max_pages + crawl.max_workers - 1

\* There are no more addresses asked for than calls in flight.
LEMMA AskingFinite ==
  ASSUME TypeOK
  PROVE  /\ IsFiniteSet(AskingUrls)
         /\ Cardinality(AskingUrls) \in Nat
         /\ Cardinality(AskingUrls) <= Len(futures)
<1>1. /\ Asking \in SUBSET (1..Len(futures)) /\ Len(futures) \in Nat
  BY Types DEF Asking
<1>2. /\ IsFiniteSet(Asking) /\ Cardinality(Asking) \in Nat
      /\ Cardinality(Asking) <= Len(futures)
  <2>1. IsFiniteSet(1..Len(futures)) /\ Cardinality(1..Len(futures)) = Len(futures)
    BY <1>1, FS_Interval
  <2> QED
    BY <1>1, <2>1, FS_Subset, FS_CardinalityType
<1> DEFINE f == [i \in Asking |-> futures[i].url]
<1>3. f \in Surjection(Asking, AskingUrls)
  BY DEF Surjection, AskingUrls
<1>4. IsFiniteSet(AskingUrls) /\ Cardinality(AskingUrls) <= Cardinality(Asking)
  BY <1>2, <1>3, FS_Surjection
<1> QED
  BY <1>1, <1>2, <1>4, FS_CardinalityType

LEMMA NextBounded == TypeInv /\ OneCall /\ Bounded /\ [Next]_vars => Bounded'
<1> SUFFICES ASSUME TypeInv, OneCall, Bounded, [Next]_vars PROVE Bounded'
  OBVIOUS
<1> DEFINE n == Cardinality(AskingUrls)
<1>1. /\ crawl.max_pages \in Nat /\ crawl.max_workers \in Nat
      /\ Len(results) \in Nat /\ Len(futures) \in Nat
      /\ DOMAIN futures = 1..Len(futures)
      /\ IsFiniteSet(AskingUrls) /\ n \in Nat /\ n <= Len(futures)
      /\ crawl' = crawl
  <2>1. crawl' = crawl
    BY SubmitEffect, EnqueueEffect, DiscardEffect, WorkerEffect
       DEF TypeInv, Next, Main, Loop, Fill, Wait, Collect, Collected, Unvisited, Shutdown,
           Terminated, vars
  <2> QED
    BY <2>1, CrawlFacts, Types, AskingFinite DEF TypeInv
<1>2. ASSUME UNCHANGED <<futures, results>>, pc' # "submit"
      PROVE  Bounded'
  BY <1>1, <1>2 DEF Bounded, Sent, AskingUrls, Asking
<1>3. CASE Loop \/ Wait \/ Collect \/ Collected \/ Unvisited \/ Shutdown
  BY <1>2, <1>3 DEF Loop, Wait, Collect, Collected, Unvisited, Shutdown, Goto, pool
<1>4. CASE Fill
  <2>1. UNCHANGED <<futures, results>> /\ AskingUrls' = AskingUrls
    BY <1>4 DEF Fill, pool, AskingUrls, Asking
  <2>2. pc' = "submit" => Len(futures) < crawl.max_workers
                          /\ ~(Len(results) >= crawl.max_pages)
    BY <1>4 DEF Fill, Goto, Room, Full
  <2> QED
    BY <1>1, <2>1, <2>2 DEF Bounded, Sent
<1>5. CASE Submit
  <2>1. pc' = "fill" /\ UNCHANGED results /\ pc = "submit"
    BY <1>5, SubmitEffect DEF Submit
  <2>2. CASE futures' = futures
    BY <1>2, <2>1, <2>2
  <2>3. CASE futures' # futures
    <3>1. PICK c \in Call : futures' = Append(futures, c)
      BY <1>5, <2>3, SubmitEffect
    <3>2. /\ Len(futures') = Len(futures) + 1
          /\ DOMAIN futures' = 1 .. Len(futures) + 1
          /\ \A i \in DOMAIN futures : futures'[i] = futures[i]
          /\ futures'[Len(futures) + 1] = c
          /\ \A i \in DOMAIN futures' : i \in DOMAIN futures \/ i = Len(futures) + 1
      <4>1. futures \in Seq(Call)
        BY Types DEF TypeInv
      <4> QED
        BY <1>1, <3>1, <4>1, AppendProperties
    <3>3. AskingUrls' \subseteq AskingUrls \cup {c.url}
      BY <3>2 DEF AskingUrls, Asking
    <3>4. /\ IsFiniteSet(AskingUrls \cup {c.url})
          /\ Cardinality(AskingUrls \cup {c.url}) \in {n, n + 1}
      BY <1>1, FS_AddElement
    <3>5. Cardinality(AskingUrls') \in Nat /\ Cardinality(AskingUrls') <= n + 1
      BY <1>1, <3>3, <3>4, FS_Subset, FS_CardinalityType
    <3> QED
      BY <1>1, <2>1, <3>2, <3>5 DEF Bounded, Sent
  <2> QED
    BY <2>2, <2>3
<1>6. CASE Enqueue
  BY <1>2, <1>6, EnqueueEffect
<1>7. CASE Discard
  <2>1. /\ at \in 1..Len(futures) /\ futures[at].state = "done"
        /\ DOMAIN futures' = 1 .. Len(futures) - 1 /\ Len(futures') = Len(futures) - 1
        /\ \A j \in DOMAIN futures' : futures'[j] = futures[IF j < at THEN j ELSE j + 1]
        /\ UNCHANGED results /\ pc' = "collect"
    BY <1>7, DiscardEffect
  <2>2. \A j \in DOMAIN futures' : \E i \in DOMAIN futures : futures'[j] = futures[i]
    BY <1>1, <2>1
  <2>3. AskingUrls' \subseteq AskingUrls
    BY <2>2 DEF AskingUrls, Asking
  <2>4. Cardinality(AskingUrls') \in Nat /\ Cardinality(AskingUrls') <= n
    BY <1>1, <2>3, FS_Subset, FS_CardinalityType
  <2> QED
    BY <1>1, <2>1, <2>4 DEF Bounded, Sent
<1>8. ASSUME NEW i \in DOMAIN futures, Worker(i)
      PROVE  Bounded'
  <2>1. /\ pc' = pc /\ Len(futures') = Len(futures) /\ DOMAIN futures' = DOMAIN futures
        /\ \A j \in DOMAIN futures : /\ futures'[j].url = futures[j].url
                                     /\ j # i => futures'[j] = futures[j]
        /\ futures'[i].state # "asking"
        /\ \/ results' = results
           \/ /\ futures[i].state = "asking"
              /\ results' = Append(results, [url |-> futures[i].url,
                                             depth |-> futures[i].depth])
    BY <1>8, WorkerEffect DEF TypeInv
  <2>2. AskingUrls' = AskingUrls \ {futures[i].url}
    <3>1. Asking' = Asking \ {i}
      BY <2>1 DEF Asking
    <3>2. \A j \in DOMAIN futures : futures[j].url = futures[i].url => j = i
      BY <1>8 DEF OneCall, Distinct
    <3>3. ASSUME NEW u PROVE u \in AskingUrls' <=> u \in AskingUrls \ {futures[i].url}
      <4>1. u \in AskingUrls' <=> \E j \in Asking \ {i} : u = futures[j].url
        BY <2>1, <3>1 DEF AskingUrls, Asking
      <4> QED
        BY <3>2, <4>1 DEF AskingUrls, Asking
    <3> QED
      BY <3>3
  <2>3. Cardinality(AskingUrls') = IF futures[i].url \in AskingUrls THEN n - 1 ELSE n
    BY <1>1, <2>2, FS_RemoveElement
  <2>4. futures[i].state = "asking" => futures[i].url \in AskingUrls
    BY <1>8 DEF AskingUrls, Asking
  <2>5. /\ futures[i].state = "asking" => Len(results') \in {Len(results), Len(results) + 1}
        /\ futures[i].state # "asking" => Len(results') = Len(results)
    <3>1. results \in Seq(Link)
          /\ [url |-> futures[i].url, depth |-> futures[i].depth] \in Link
      BY <1>8, Types DEF TypeInv, Call, Link
    <3> QED
      BY <2>1, <3>1, AppendProperties
  <2> HIDE DEF n
  <2>6. Cardinality(AskingUrls') \in {n, n - 1}
        /\ Len(results') + Cardinality(AskingUrls') <= Len(results) + n
    BY <1>1, <2>3, <2>4, <2>5
  <2>7. Sent' <= Sent /\ Sent' \in Int /\ Sent \in Int
    BY <1>1, <2>5, <2>6 DEF Sent, n
  <2> QED
    BY <1>1, <2>1, <2>7 DEF Bounded
<1>9. CASE UNCHANGED vars
  BY <1>1, <1>9 DEF vars, pool, main, Bounded, Sent, AskingUrls, Asking
<1> QED
  BY <1>3, <1>4, <1>5, <1>6, <1>7, <1>8, <1>9 DEF Next, Main, Terminated

\* The crawler never finds max_pages + max_workers pages or more, for any web, limits
\* and failures, although the main thread tests the number of results without the lock
\* and the calls in flight go on adding to it after the test.
THEOREM OverrunHolds == Spec => []OverrunBounded
<1>1. Init => OneCall
  BY DEF Init, OneCall, Distinct
<1>2. Init /\ TypeInv => Bounded
  <2> SUFFICES ASSUME Init, TypeInv PROVE Bounded
    OBVIOUS
  <2>1. AskingUrls = {} /\ Len(results) = 0 /\ Len(futures) = 0 /\ pc = "loop"
    BY DEF Init, AskingUrls, Asking
  <2>2. Sent = 0
    BY <2>1, FS_EmptySet DEF Sent
  <2> QED
    BY <2>1, <2>2, CrawlFacts DEF Bounded, TypeInv
<1>3. TypeInv /\ Bounded => OverrunBounded
  BY CrawlFacts, AskingFinite, Types DEF TypeInv, Bounded, Sent, OverrunBounded
<1> QED
  BY <1>1, <1>2, <1>3, InitType, NextType, NextOneCall, NextBounded, PTL DEF Spec

-----------------------------------------------------------------------------
(* Where an address comes from *)

\* Of crawl c with the results rs: e is the start, or a link of a page found one step
\* nearer to it; and e is one of the results.
Reached(e, rs, c) ==
  \/ e.url = c.start /\ e.depth = 0
  \/ \E i \in DOMAIN rs : /\ e.depth = rs[i].depth + 1
                          /\ e.url \in ToSet(c.pages[rs[i].url])
Found(e, rs) == \E i \in DOMAIN rs : rs[i].url = e.url /\ rs[i].depth = e.depth

\* Everything that waits, is in flight or was found was reached, and the links that the
\* main thread holds are links of the call at hand, whose page is among the results.
Paths ==
  /\ \A i \in DOMAIN queue : Reached(queue[i], results, crawl)
  /\ \A i \in DOMAIN futures : Reached(futures[i], results, crawl)
  /\ \A i \in DOMAIN results : Reached(results[i], results, crawl)
  /\ \A i \in DOMAIN futures : futures[i].result => Found(futures[i], results)
  /\ pc \in {"links", "known"} => ToSet(links) \subseteq ToSet(crawl.pages[futures[at].url])

\* The results only grow, and what was reached stays so.
LEMMA ResultsGrow ==
  ASSUME TypeInv, [Next]_vars
  PROVE  /\ crawl' = crawl
         /\ \A i \in DOMAIN results : i \in DOMAIN results' /\ results'[i] = results[i]
<1>1. CASE \E i \in DOMAIN futures : Worker(i)
  <2>1. PICK i \in DOMAIN futures : Worker(i)
    BY <1>1
  <2>2. /\ crawl' = crawl
        /\ \/ results' = results
           \/ results' = Append(results, [url |-> futures[i].url, depth |-> futures[i].depth])
    BY <2>1, WorkerEffect DEF TypeInv
  <2>3. results \in Seq(Link) /\ [url |-> futures[i].url, depth |-> futures[i].depth] \in Link
    BY Types DEF TypeInv, Call, Link
  <2> QED
    BY <2>2, <2>3, AppendProperties
<1>2. CASE ~ \E i \in DOMAIN futures : Worker(i)
  <2>1. UNCHANGED <<crawl, results>>
    BY <1>2, SubmitEffect, EnqueueEffect, DiscardEffect
       DEF Next, Main, Loop, Fill, Wait, Collect, Collected, Unvisited, Shutdown, pool,
           Terminated, vars
  <2> QED
    BY <2>1
<1> QED
  BY <1>1, <1>2

LEMMA ReachedStays ==
  ASSUME NEW rs, NEW ss, \A i \in DOMAIN rs : i \in DOMAIN ss /\ ss[i] = rs[i], NEW c
  PROVE  \A e : /\ Reached(e, rs, c) => Reached(e, ss, c)
                /\ Found(e, rs) => Found(e, ss)
  BY DEF Reached, Found

\* Reached depends on the address and the depth only.
LEMMA ReachedAlike ==
  ASSUME NEW rs, NEW c, NEW d, NEW e, d.url = e.url, d.depth = e.depth
  PROVE  /\ Reached(d, rs, c) <=> Reached(e, rs, c)
         /\ Found(d, rs) <=> Found(e, rs)
  BY DEF Reached, Found

LEMMA NextPaths == TypeInv /\ Paths /\ [Next]_vars => Paths'
<1> SUFFICES ASSUME TypeInv, Paths, [Next]_vars PROVE Paths'
  OBVIOUS
<1>1. /\ crawl' = crawl
      /\ DOMAIN futures = 1..Len(futures) /\ Len(futures) \in Nat
      /\ futures \in Seq(Call) /\ queue \in Seq(Link) /\ results \in Seq(Link)
  BY ResultsGrow, Types DEF TypeInv
<1>2. \A e : /\ Reached(e, results, crawl) => Reached(e, results', crawl)
             /\ Found(e, results) => Found(e, results')
  BY ResultsGrow, ReachedStays
<1>3. CASE Loop \/ Fill \/ Wait \/ Collected \/ Shutdown
  BY <1>3 DEF Loop, Fill, Wait, Collected, Shutdown, Goto, pool, Paths
<1>4. CASE Submit
  <2>1. /\ queue # <<>> /\ queue' = Tail(queue) /\ UNCHANGED results /\ pc' = "fill"
        /\ \/ futures' = futures
           \/ \E c \in Call : /\ c.url = Head(queue).url /\ c.depth = Head(queue).depth
                              /\ c.result = FALSE
                              /\ futures' = Append(futures, c)
    BY <1>4, SubmitEffect
  <2>2. \A i \in DOMAIN queue' : \E j \in DOMAIN queue : queue'[i] = queue[j]
    BY <1>1, <2>1, HeadTailProperties
  <2>3. 1 \in DOMAIN queue /\ Head(queue) = queue[1]
    BY <1>1, <2>1
  <2>4. \A i \in DOMAIN futures' : /\ Reached(futures'[i], results, crawl)
                                   /\ futures'[i].result => Found(futures'[i], results)
    <3>1. CASE futures' = futures
      BY <3>1 DEF Paths
    <3>2. ASSUME NEW c \in Call, c.url = queue[1].url, c.depth = queue[1].depth,
                 c.result = FALSE, futures' = Append(futures, c)
          PROVE  \A i \in DOMAIN futures' :
                   /\ Reached(futures'[i], results, crawl)
                   /\ futures'[i].result => Found(futures'[i], results)
      <4>1. \A i \in DOMAIN futures' :
              (i \in DOMAIN futures /\ futures'[i] = futures[i]) \/ futures'[i] = c
        BY <1>1, <3>2, AppendProperties
      <4>2. Reached(c, results, crawl)
        BY <2>3, <3>2, ReachedAlike DEF Paths
      <4> QED
        BY <3>2, <4>1, <4>2 DEF Paths
    <3> QED
      BY <2>1, <2>3, <3>1, <3>2
  <2>5. \A i \in DOMAIN queue' : Reached(queue'[i], results, crawl)
    BY <2>2 DEF Paths
  <2>6. \A i \in DOMAIN queue' : Reached(queue'[i], results', crawl)
    BY <1>2, <2>5
  <2>7. /\ \A i \in DOMAIN futures' : Reached(futures'[i], results', crawl)
        /\ \A i \in DOMAIN futures' : futures'[i].result => Found(futures'[i], results')
    BY <1>2, <2>4
  <2>8. \A i \in DOMAIN results' : Reached(results'[i], results', crawl)
    BY <1>2, <2>1 DEF Paths
  <2>9. pc' \notin {"links", "known"}
    BY <2>1
  <2> QED
    BY <1>1, <2>6, <2>7, <2>8, <2>9 DEF Paths
<1>5. CASE Collect
  <2>1. /\ UNCHANGED <<queue, futures, results>>
        /\ \/ /\ pc' = "links" /\ at' = at
              /\ links' = crawl.pages[futures[at].url] \/ links' = <<>>
           \/ pc' = "collect"
    BY <1>5 DEF Collect, pool
  <2>2. pc' \in {"links", "known"} =>
          ToSet(links') \subseteq ToSet(crawl.pages[futures'[at'].url])
    BY <2>1 DEF ToSet
  <2> QED
    BY <1>1, <2>1, <2>2 DEF Paths
<1>6. CASE Unvisited
  <2>1. /\ UNCHANGED <<queue, futures, results, at>>
        /\ pc = "links" /\ links # <<>> /\ links' \in {links, Tail(links)}
    BY <1>6 DEF Unvisited, pool
  <2>2. ToSet(links') \subseteq ToSet(links)
    <3>1. links \in Seq(Urls)
      BY Types DEF TypeInv
    <3> QED
      BY <2>1, <3>1, HeadTailProperties DEF ToSet
  <2> QED
    BY <1>1, <2>1, <2>2 DEF Paths
<1>7. CASE Enqueue
  <2>1. /\ at \in DOMAIN futures /\ futures[at].result /\ pc = "known"
        /\ links # <<>> /\ links' = Tail(links) /\ UNCHANGED <<futures, results, at>>
        /\ \/ queue' = queue
           \/ \E l \in Link : /\ l.url = Head(links) /\ l.depth = futures[at].depth + 1
                              /\ queue' = Append(queue, l)
    BY <1>7, EnqueueEffect DEF Enqueue
  <2>2. Head(links) \in ToSet(links) /\ ToSet(Tail(links)) \subseteq ToSet(links)
    <3>1. links \in Seq(Urls)
      BY Types DEF TypeInv
    <3> QED
      BY <2>1, <3>1, HeadTailProperties DEF ToSet
  <2>3. \A i \in DOMAIN queue' : Reached(queue'[i], results, crawl)
    <3>1. CASE queue' = queue
      BY <3>1 DEF Paths
    <3>2. ASSUME NEW l \in Link, l.url = Head(links), l.depth = futures[at].depth + 1,
                 queue' = Append(queue, l)
          PROVE  \A i \in DOMAIN queue' : Reached(queue'[i], results, crawl)
      <4>1. \A i \in DOMAIN queue' : (i \in DOMAIN queue /\ queue'[i] = queue[i]) \/ queue'[i] = l
        BY <1>1, <3>2, AppendProperties
      <4>2. PICK j \in DOMAIN results : /\ results[j].url = futures[at].url
                                        /\ results[j].depth = futures[at].depth
        BY <2>1 DEF Paths, Found
      <4>3. l.url \in ToSet(crawl.pages[futures[at].url])
        BY <2>1, <2>2, <3>2 DEF Paths
      <4>4. Reached(l, results, crawl)
        BY <3>2, <4>2, <4>3 DEF Reached
      <4> QED
        BY <4>1, <4>4 DEF Paths
    <3> QED
      BY <2>1, <3>1, <3>2
  <2>4. ToSet(links') \subseteq ToSet(crawl.pages[futures[at].url])
    BY <2>1, <2>2 DEF Paths
  <2> QED
    BY <1>1, <2>1, <2>3, <2>4 DEF Paths
<1>8. CASE Discard
  <2>1. /\ UNCHANGED <<queue, results>> /\ pc' = "collect"
        /\ at \in 1..Len(futures) /\ DOMAIN futures' = 1 .. Len(futures) - 1
        /\ \A j \in 1 .. Len(futures) - 1 : futures'[j] = futures[IF j < at THEN j ELSE j + 1]
    BY <1>8, DiscardEffect
  <2>2. ASSUME NEW j \in DOMAIN futures'
        PROVE  \E i \in DOMAIN futures : futures'[j] = futures[i]
    <3>1. Len(futures) \in Nat /\ DOMAIN futures = 1..Len(futures)
      BY Types DEF TypeInv
    <3>2. j \in DOMAIN futures /\ (~(j < at) => j + 1 \in DOMAIN futures)
      BY <2>1, <3>1
    <3>3. futures'[j] = futures[IF j < at THEN j ELSE j + 1]
      BY <2>1
    <3> QED
      BY <3>2, <3>3
  <2> QED
    BY <1>1, <2>1, <2>2 DEF Paths
<1>9. ASSUME NEW i \in DOMAIN futures, Worker(i)
      PROVE  Paths'
  <2> DEFINE r == [url |-> futures[i].url, depth |-> futures[i].depth]
  <2>1. /\ UNCHANGED <<queue, pc, at, links>> /\ DOMAIN futures' = DOMAIN futures
        /\ \A j \in DOMAIN futures : /\ futures'[j].url = futures[j].url
                                     /\ futures'[j].depth = futures[j].depth
                                     /\ j # i => futures'[j] = futures[j]
        /\ \/ futures'[i].result = futures[i].result /\ results' = results
           \/ results' = Append(results, r)
    BY <1>9, WorkerEffect DEF TypeInv
  <2>2. r \in Link /\ r.url = futures[i].url /\ r.depth = futures[i].depth
    BY <1>9, Types DEF TypeInv, Call, Link
  <2> HIDE DEF r
  <2>3. /\ Reached(r, results, crawl)
        /\ \A j \in DOMAIN futures' : Reached(futures'[j], results, crawl)
    BY <2>1, <2>2, ReachedAlike DEF Paths
  <2>4. \A j \in DOMAIN futures' : futures'[j].result => Found(futures'[j], results')
    <3>1. ASSUME NEW j \in DOMAIN futures, futures[j].result
          PROVE  Found(futures'[j], results')
      <4>1. Found(futures[j], results')
        BY <1>2, <3>1 DEF Paths
      <4> QED
        BY <2>1, <4>1, ReachedAlike
    <3>2. CASE results' = Append(results, r)
      <4>1. Len(results) + 1 \in DOMAIN results' /\ results'[Len(results) + 1] = r
        BY <1>1, <2>2, <3>2, AppendProperties
      <4>2. Found(futures'[i], results')
        BY <2>1, <2>2, <4>1 DEF Found
      <4> QED
        BY <2>1, <3>1, <4>2
    <3> QED
      BY <2>1, <3>1, <3>2
  <2>5. \A j \in DOMAIN results' : Reached(results'[j], results', crawl)
    <3>1. \A j \in DOMAIN results' : (j \in DOMAIN results /\ results'[j] = results[j]) \/ results'[j] = r
      BY <1>1, <2>1, <2>2, AppendProperties
    <3> QED
      BY <1>2, <2>3, <3>1 DEF Paths
  <2>6. \A j \in DOMAIN queue' : Reached(queue'[j], results', crawl)
    BY <1>2, <2>1 DEF Paths
  <2>7. \A j \in DOMAIN futures' : Reached(futures'[j], results', crawl)
    BY <1>2, <2>3
  <2>8. pc' \in {"links", "known"} =>
          ToSet(links') \subseteq ToSet(crawl.pages[futures'[at'].url])
    BY <2>1 DEF Paths, TypeInv, Control
  <2> QED
    BY <1>1, <2>4, <2>5, <2>6, <2>7, <2>8 DEF Paths
<1>10. CASE UNCHANGED vars
  BY <1>10 DEF vars, pool, main, Paths
<1> QED
  BY <1>3, <1>4, <1>5, <1>6, <1>7, <1>8, <1>9, <1>10 DEF Next, Main, Terminated

\* A page has the depth of a page that links to it plus one, for any web, although the
\* workers append to the results in the order of the answers.
THEOREM DepthHolds == Spec => []DepthIsAPath
<1>1. Init => Paths
  BY DEF Init, Paths, Reached
<1>2. TypeInv /\ Paths => DepthIsAPath
  <2> SUFFICES ASSUME TypeInv, Paths, NEW i \in DOMAIN results
               PROVE  \/ results[i] = [url |-> crawl.start, depth |-> 0]
                      \/ \E s \in ToSet(results) :
                           /\ results[i].depth = s.depth + 1
                           /\ results[i].url \in ToSet(crawl.pages[s.url])
    BY DEF DepthIsAPath, ToSet
  <2>1. results[i] \in Link
    BY Types DEF TypeInv
  <2>2. results[i] = [url |-> results[i].url, depth |-> results[i].depth]
    BY <2>1 DEF Link
  <2> QED
    BY <2>2 DEF Paths, Reached, ToSet
<1> QED
  BY <1>1, <1>2, InitType, NextType, NextPaths, PTL DEF Spec

-----------------------------------------------------------------------------
(* No link is lost *)

\* Address u was tried, waits or is in flight.
Kept(u) ==
  \/ u \in visited
  \/ \E i \in DOMAIN queue : queue[i].url = u
  \/ \E i \in DOMAIN futures : futures[i].url = u

\* The call that found page r is not discarded yet, and if the main thread is at its
\* links, then u is one of those it has not looked at.
Owed(r, u) ==
  \E j \in DOMAIN futures :
    /\ futures[j].url = r.url /\ futures[j].depth = r.depth /\ futures[j].result
    /\ pc \in {"links", "known"} /\ at = j => u \in ToSet(links)

Remembered ==
  /\ Kept(crawl.start)
  /\ \A i \in DOMAIN results, u \in Urls :
       /\ results[i].depth < crawl.max_depth
       /\ u \in ToSet(crawl.pages[results[i].url])
       => Kept(u) \/ Owed(results[i], u)
  /\ pc \in {"shutdown", "done"} => Full \/ (queue = <<>> /\ futures = <<>>)

\* An element of a sequence is its head or an element of its tail.
LEMMA HeadOrTail ==
  ASSUME NEW S, NEW s \in Seq(S), s # <<>>, NEW u \in ToSet(s)
  PROVE  u = Head(s) \/ u \in ToSet(Tail(s))
<1>1. PICK i \in DOMAIN s : s[i] = u
  BY DEF ToSet
<1>2. /\ DOMAIN s = 1..Len(s) /\ Len(s) \in Nat /\ Head(s) = s[1]
      /\ Tail(s) \in Seq(S) /\ Len(Tail(s)) = Len(s) - 1
      /\ \A j \in 1 .. Len(s) - 1 : Tail(s)[j] = s[j + 1]
  BY HeadTailProperties
<1>3. CASE i = 1
  BY <1>1, <1>2, <1>3
<1>4. CASE i # 1
  <2>1. i - 1 \in 1 .. Len(s) - 1 /\ (i - 1) + 1 = i
    BY <1>2, <1>4
  <2>2. Tail(s)[i - 1] = u /\ i - 1 \in DOMAIN Tail(s)
    BY <1>1, <1>2, <2>1
  <2> QED
    BY <2>2 DEF ToSet
<1> QED
  BY <1>3, <1>4

\* An address that was tried, waits or is in flight stays one of the three: a call is
\* discarded only when its address was tried.
LEMMA NextKept ==
  ASSUME TypeInv, OneCall, [Next]_vars, NEW u, Kept(u)
  PROVE  Kept(u)'
<1>1. /\ queue \in Seq(Link) /\ futures \in Seq(Call)
      /\ DOMAIN queue = 1..Len(queue) /\ Len(queue) \in Nat
      /\ DOMAIN futures = 1..Len(futures) /\ Len(futures) \in Nat
  BY Types DEF TypeInv
<1>2. CASE UNCHANGED <<queue, futures, visited>>
  BY <1>2 DEF Kept
<1>3. CASE Loop \/ Fill \/ Wait \/ Collect \/ Collected \/ Unvisited \/ Shutdown
           \/ UNCHANGED vars
  BY <1>2, <1>3
     DEF Loop, Fill, Wait, Collect, Collected, Unvisited, Shutdown, pool, vars
<1>4. CASE Submit
  <2>1. /\ queue # <<>> /\ queue' = Tail(queue) /\ visited' = visited
        /\ \/ Head(queue).url \in visited /\ futures' = futures
           \/ \E c \in Call : c.url = Head(queue).url /\ futures' = Append(futures, c)
    BY <1>4, SubmitEffect
  <2>2. \A i \in DOMAIN futures : i \in DOMAIN futures' /\ futures'[i] = futures[i]
    BY <1>1, <2>1, AppendProperties
  <2>3. Head(queue).url \in visited
        \/ \E i \in DOMAIN futures' : futures'[i].url = Head(queue).url
    <3>1. ASSUME NEW c \in Call, futures' = Append(futures, c), c.url = Head(queue).url
          PROVE  \E i \in DOMAIN futures' : futures'[i].url = Head(queue).url
      <4>1. Len(futures) + 1 \in DOMAIN futures' /\ futures'[Len(futures) + 1] = c
        BY <1>1, <3>1, AppendProperties
      <4> QED
        BY <3>1, <4>1
    <3> QED
      BY <2>1, <3>1
  <2>4. ASSUME NEW i \in DOMAIN queue
        PROVE  queue[i] = Head(queue) \/ \E j \in DOMAIN queue' : queue'[j] = queue[i]
    <3>1. queue[i] = Head(queue) \/ queue[i] \in ToSet(Tail(queue))
      BY <1>1, <2>1, HeadOrTail DEF ToSet
    <3> QED
      BY <2>1, <3>1 DEF ToSet
  <2> QED
    BY <2>1, <2>2, <2>3, <2>4 DEF Kept
<1>5. CASE Enqueue
  <2>1. /\ futures' = futures /\ visited' = visited
        /\ queue' = queue \/ \E l \in Link : queue' = Append(queue, l)
    BY <1>5, EnqueueEffect
  <2>2. \A i \in DOMAIN queue : i \in DOMAIN queue' /\ queue'[i] = queue[i]
    BY <1>1, <2>1, AppendProperties
  <2> QED
    BY <2>1, <2>2 DEF Kept
<1>6. CASE Discard
  <2>1. /\ at \in 1..Len(futures) /\ futures[at].state = "done"
        /\ DOMAIN futures' = 1 .. Len(futures) - 1
        /\ \A j \in 1 .. Len(futures) - 1 :
             futures'[j] = futures[IF j < at THEN j ELSE j + 1]
        /\ UNCHANGED <<queue, visited>>
    BY <1>6, DiscardEffect
  <2>2. futures[at].url \in visited
    BY <1>1, <2>1 DEF OneCall
  <2>3. ASSUME NEW i \in DOMAIN futures, i # at
        PROVE  \E j \in DOMAIN futures' : futures'[j] = futures[i]
    <3>1. CASE i < at
      <4>1. i \in 1 .. Len(futures) - 1
        BY <1>1, <2>1, <3>1
      <4> QED
        BY <2>1, <3>1, <4>1
    <3>2. CASE i > at
      <4>1. i - 1 \in 1 .. Len(futures) - 1 /\ ~(i - 1 < at) /\ (i - 1) + 1 = i
        BY <1>1, <2>1, <3>2
      <4> QED
        BY <2>1, <4>1
    <3> QED
      BY <1>1, <2>1, <2>3, <3>1, <3>2
  <2> QED
    BY <2>1, <2>2, <2>3 DEF Kept
<1>7. ASSUME NEW i \in DOMAIN futures, Worker(i)
      PROVE  Kept(u)'
  <2>1. /\ queue' = queue /\ DOMAIN futures' = DOMAIN futures
        /\ \A j \in DOMAIN futures : futures'[j].url = futures[j].url
        /\ visited \subseteq visited'
    BY <1>7, WorkerEffect DEF TypeInv
  <2> QED
    BY <2>1 DEF Kept
<1> QED
  BY <1>3, <1>4, <1>5, <1>6, <1>7 DEF Next, Main, Terminated

\* A link that the main thread has not looked at stays so, until it is one of the kept.
LEMMA NextOwed ==
  ASSUME TypeInv, OneCall, [Next]_vars, NEW r \in Link, NEW u,
         r.depth < crawl.max_depth, u \in ToSet(crawl.pages[r.url]), Owed(r, u)
  PROVE  Kept(u)' \/ Owed(r, u)'
<1>1. /\ queue \in Seq(Link) /\ futures \in Seq(Call) /\ links \in Seq(Urls)
      /\ DOMAIN queue = 1..Len(queue) /\ Len(queue) \in Nat
      /\ DOMAIN futures = 1..Len(futures) /\ Len(futures) \in Nat
  BY Types DEF TypeInv
<1>2. PICK j \in DOMAIN futures :
        /\ futures[j].url = r.url /\ futures[j].depth = r.depth /\ futures[j].result
        /\ pc \in {"links", "known"} /\ at = j => u \in ToSet(links)
  BY DEF Owed
<1>3. CASE Loop \/ Fill \/ Wait \/ Collected \/ Shutdown
  <2>1. futures' = futures /\ pc' \notin {"links", "known"}
    BY <1>3 DEF Loop, Fill, Wait, Collected, Shutdown, Goto
  <2> QED
    BY <1>2, <2>1 DEF Owed
<1>4. CASE Submit
  <2>1. /\ pc' = "fill"
        /\ futures' = futures \/ \E c \in Call : futures' = Append(futures, c)
    BY <1>4, SubmitEffect
  <2>2. j \in DOMAIN futures' /\ futures'[j] = futures[j]
    BY <1>1, <2>1, AppendProperties
  <2> QED
    BY <1>2, <2>1, <2>2 DEF Owed
<1>5. CASE Collect
  <2>1. /\ futures' = futures
        /\ \/ /\ pc' = "links" /\ at' = at
              /\ links' = IF futures[at].result /\ futures[at].depth < crawl.max_depth
                          THEN crawl.pages[futures[at].url] ELSE <<>>
           \/ pc' = "collect"
    BY <1>5 DEF Collect
  <2>2. pc' \in {"links", "known"} /\ at' = j => u \in ToSet(links')
    BY <1>2, <2>1
  <2> QED
    BY <1>2, <2>1, <2>2 DEF Owed
<1>6. CASE Unvisited
  <2>1. /\ UNCHANGED <<futures, visited, at>> /\ pc = "links" /\ links # <<>>
        /\ (Head(links) \in visited /\ links' = Tail(links)) \/ links' = links
    BY <1>6 DEF Unvisited, pool
  <2>2. at = j => u \in visited' \/ u \in ToSet(links')
    BY <1>1, <1>2, <2>1, HeadOrTail
  <2>3. CASE u \in visited'
    BY <2>3 DEF Kept
  <2>4. CASE u \notin visited'
    BY <1>2, <2>1, <2>2, <2>4 DEF Owed
  <2> QED
    BY <2>3, <2>4
<1>7. CASE Enqueue
  <2>1. /\ links # <<>> /\ links' = Tail(links) /\ pc = "known"
        /\ UNCHANGED <<futures, at>>
        /\ \/ Known(Head(links)) /\ queue' = queue
           \/ \E l \in Link : l.url = Head(links) /\ queue' = Append(queue, l)
    BY <1>7, EnqueueEffect DEF Enqueue
  <2>2. ASSUME u = Head(links)
        PROVE  Kept(u)'
    <3>1. CASE Known(u) /\ queue' = queue
      BY <2>1, <3>1 DEF Known, UrlsOf, Kept
    <3>2. ASSUME NEW l \in Link, l.url = u, queue' = Append(queue, l)
          PROVE  Kept(u)'
      <4>1. Len(queue) + 1 \in DOMAIN queue' /\ queue'[Len(queue) + 1] = l
        BY <1>1, <3>2, AppendProperties
      <4> QED
        BY <3>2, <4>1 DEF Kept
    <3> QED
      BY <2>1, <2>2, <3>1, <3>2
  <2>3. at = j => u = Head(links) \/ u \in ToSet(links')
    BY <1>1, <1>2, <2>1, HeadOrTail
  <2> QED
    BY <1>2, <2>1, <2>2, <2>3 DEF Owed
<1>8. CASE Discard
  <2>1. /\ at \in 1..Len(futures) /\ links = <<>> /\ pc = "links" /\ pc' = "collect"
        /\ DOMAIN futures' = 1 .. Len(futures) - 1
        /\ \A k \in 1 .. Len(futures) - 1 :
             futures'[k] = futures[IF k < at THEN k ELSE k + 1]
    BY <1>8, DiscardEffect DEF Discard
  <2>2. j # at
    BY <1>2, <2>1 DEF ToSet
  <2>3. \E k \in DOMAIN futures' : futures'[k] = futures[j]
    <3>1. CASE j < at
      <4>1. j \in 1 .. Len(futures) - 1
        BY <1>1, <2>1, <3>1
      <4> QED
        BY <2>1, <3>1, <4>1
    <3>2. CASE j > at
      <4>1. j - 1 \in 1 .. Len(futures) - 1 /\ ~(j - 1 < at) /\ (j - 1) + 1 = j
        BY <1>1, <2>1, <3>2
      <4> QED
        BY <2>1, <4>1
    <3> QED
      BY <1>1, <2>1, <2>2, <3>1, <3>2
  <2> QED
    BY <1>2, <2>1, <2>3 DEF Owed
<1>9. ASSUME NEW i \in DOMAIN futures, Worker(i)
      PROVE  Owed(r, u)'
  <2>1. /\ UNCHANGED <<pc, at, links>> /\ DOMAIN futures' = DOMAIN futures
        /\ futures'[j].url = futures[j].url /\ futures'[j].depth = futures[j].depth
        /\ j # i => futures'[j] = futures[j]
        /\ futures'[i].result \/ futures'[i].result = futures[i].result
    BY <1>9, WorkerEffect DEF TypeInv
  <2>2. futures'[j].result
    BY <1>2, <2>1
  <2> QED
    BY <1>2, <2>1, <2>2 DEF Owed
<1>10. CASE UNCHANGED vars
  BY <1>2, <1>10 DEF vars, main, Owed
<1> QED
  BY <1>3, <1>4, <1>5, <1>6, <1>7, <1>8, <1>9, <1>10 DEF Next, Main, Terminated

\* A page that was just found owes all its links: the main thread is not at its call.
LEMMA NewOwed ==
  ASSUME TypeInv, NEW i \in DOMAIN futures, Worker(i), results' # results, NEW u
  PROVE  /\ results' = Append(results, [url |-> futures[i].url, depth |-> futures[i].depth])
         /\ \A r : r.url = futures[i].url /\ r.depth = futures[i].depth => Owed(r, u)'
<1>1. /\ futures[i].state = "asking" /\ futures'[i].result
      /\ futures'[i].url = futures[i].url /\ futures'[i].depth = futures[i].depth
      /\ DOMAIN futures' = DOMAIN futures /\ UNCHANGED <<pc, at, links>>
      /\ results' = Append(results, [url |-> futures[i].url, depth |-> futures[i].depth])
  BY WorkerEffect DEF TypeInv
<1>2. ~(pc \in {"links", "known"} /\ at = i)
  BY <1>1 DEF TypeInv, Control
<1> QED
  BY <1>1, <1>2 DEF Owed
LEMMA NextRemembered == TypeInv /\ OneCall /\ Remembered /\ [Next]_vars => Remembered'
<1> SUFFICES ASSUME TypeInv, OneCall, Remembered, [Next]_vars PROVE Remembered'
  OBVIOUS
<1>1. /\ crawl' = crawl /\ crawl.start \in Urls /\ crawl.max_pages \in Nat
      /\ results \in Seq(Link) /\ Len(results) \in Nat
      /\ \A i \in DOMAIN results : results[i] \in Link
  BY ResultsGrow, CrawlFacts, Types DEF TypeInv
<1>2. Kept(crawl.start)'
  <2>1. ASSUME NEW u, u = crawl.start PROVE Kept(u)'
    BY <2>1, NextKept DEF Remembered
  <2> QED
    BY <1>1, <2>1 DEF Kept
<1>3. ASSUME NEW r \in Link, NEW u \in Urls, r.depth < crawl.max_depth,
             u \in ToSet(crawl.pages[r.url]), Kept(u) \/ Owed(r, u)
      PROVE  Kept(u)' \/ Owed(r, u)'
  BY <1>3, NextKept, NextOwed
<1>4. ASSUME NEW i \in DOMAIN results', NEW u \in Urls, NEW r, r = results'[i],
             r.depth < crawl.max_depth, u \in ToSet(crawl.pages[r.url])
      PROVE  Kept(u)' \/ Owed(r, u)'
  <2>1. CASE i \in DOMAIN results
    <3>1. r = results[i] /\ r \in Link
      BY <1>1, <1>4, <2>1, ResultsGrow
    <3>2. Kept(u) \/ Owed(r, u)
      <4>1. Kept(u) \/ Owed(results[i], u)
        BY <1>4, <2>1, <3>1 DEF Remembered
      <4> QED
        BY <3>1, <4>1
    <3> QED
      BY <1>3, <1>4, <3>1, <3>2
  <2>2. CASE i \notin DOMAIN results
    <3>1. results' # results
      BY <2>2
    <3>2. PICK j \in DOMAIN futures : Worker(j)
      <4>1. ASSUME ~ \E j \in DOMAIN futures : Worker(j)
            PROVE  results' = results
        BY <4>1, SubmitEffect, EnqueueEffect, DiscardEffect
           DEF Next, Main, Loop, Fill, Wait, Collect, Collected, Unvisited, Shutdown, pool,
               Terminated, vars
      <4> QED
        BY <3>1, <4>1
    <3> DEFINE f == [url |-> futures[j].url, depth |-> futures[j].depth]
    <3>3. results' = Append(results, f) /\ f \in Link
      BY <3>1, <3>2, NewOwed, Types DEF TypeInv, Call, Link
    <3>4. r = f
      <4> HIDE DEF f
      <4>1. /\ DOMAIN results = 1..Len(results) /\ DOMAIN results' = 1 .. Len(results) + 1
            /\ results'[Len(results) + 1] = f
        BY <1>1, <3>3, AppendProperties
      <4>2. i = Len(results) + 1
        BY <1>1, <2>2, <4>1
      <4> QED
        BY <1>4, <4>1, <4>2
    <3> QED
      BY <3>1, <3>2, <3>4, NewOwed
  <2> QED
    BY <2>1, <2>2
<1>5. \A i \in DOMAIN results', u \in Urls :
        /\ results'[i].depth < crawl'.max_depth
        /\ u \in ToSet(crawl'.pages[results'[i].url])
        => Kept(u)' \/ Owed(results[i], u)'
  <2> SUFFICES ASSUME NEW i \in DOMAIN results', NEW u \in Urls,
                      results'[i].depth < crawl.max_depth,
                      u \in ToSet(crawl.pages[results'[i].url])
               PROVE  Kept(u)' \/ Owed(results[i], u)'
    BY <1>1
  <2>1. ASSUME NEW r, r = results'[i] PROVE Kept(u)' \/ Owed(r, u)'
    BY <1>4, <2>1
  <2> QED
    BY <2>1 DEF Owed
<1>6. pc' \in {"shutdown", "done"} => (Full \/ (queue = <<>> /\ futures = <<>>))'
  <2>1. Full => Full'
    <3>1. Len(results') >= Len(results) /\ Len(results') \in Nat
      <4>1. results' \in Seq(Link)
        BY <1>1, NextType, Types DEF TypeInv, TypeOK, Link
      <4>2. DOMAIN results' = 1..Len(results') /\ DOMAIN results = 1..Len(results)
        BY <1>1, <4>1
      <4>3. Len(results) = 0 \/ Len(results) \in DOMAIN results'
        BY <1>1, <4>2, ResultsGrow
      <4> QED
        BY <1>1, <4>1, <4>2, <4>3
    <3> QED
      BY <1>1, <3>1 DEF Full
  <2>2. CASE \E i \in DOMAIN futures : Worker(i)
    <3>1. PICK i \in DOMAIN futures : Worker(i)
      BY <2>2
    <3>2. pc' = pc
      BY <3>1, WorkerEffect DEF TypeInv
    <3>3. futures # <<>>
      BY Types DEF TypeInv
    <3> QED
      BY <2>1, <3>2, <3>3 DEF Remembered
  <2>3. CASE Loop \/ Shutdown \/ Terminated \/ UNCHANGED vars
    BY <2>1, <2>3
       DEF Loop, Shutdown, Terminated, Goto, pool, main, vars, Remembered, Full
  <2>4. CASE Fill \/ Submit \/ Wait \/ Collect \/ Collected \/ Unvisited \/ Enqueue \/ Discard
    BY <2>4 DEF Fill, Submit, Wait, Collect, Collected, Unvisited, Enqueue, Discard, Goto
  <2> QED
    BY <2>2, <2>3, <2>4 DEF Next, Main
<1> QED
  BY <1>2, <1>5, <1>6 DEF Remembered

\* A crawl that ends below max_pages has tried the start and every link of every page it
\* found above max_depth, for any web, any failures and any number of workers.
THEOREM NothingForgottenHolds == Spec => []NothingForgotten
<1>1. Init => Remembered
  BY DEF Init, Remembered, Kept
<1>2. Init => OneCall
  BY DEF Init, OneCall, Distinct
<1>3. TypeInv /\ Remembered => NothingForgotten
  <2> SUFFICES ASSUME TypeInv, Remembered, pc = "done", ~Full PROVE
                      /\ crawl.start \in visited
                      /\ \A r \in ToSet(results) : r.depth < crawl.max_depth =>
                           ToSet(crawl.pages[r.url]) \subseteq visited
    BY DEF NothingForgotten
  <2>1. queue = <<>> /\ futures = <<>>
    BY DEF Remembered
  <2>2. \A u : (Kept(u) => u \in visited) /\ \A r : ~Owed(r, u)
    BY <2>1 DEF Kept, Owed
  <2>3. ASSUME NEW i \in DOMAIN results PROVE ToSet(crawl.pages[results[i].url]) \subseteq Urls
    BY CrawlFacts, Types DEF TypeInv, Link, ToSet
  <2> QED
    BY <2>2, <2>3 DEF Remembered, ToSet
<1> QED
  BY <1>1, <1>2, <1>3, InitType, NextType, NextOneCall, NextRemembered, PTL DEF Spec
=============================================================================
