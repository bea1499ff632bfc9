------------------------------- MODULE Spider -------------------------------
(***************************************************************************)
(* The crawler of LSSE/scripts/safe/extracting/http_https/spider.lsse.     *)
(* The main thread keeps a queue of links and at most max_workers calls of *)
(* crawl_page in flight; the workers add to visited and to results, which  *)
(* the main thread reads without their lock.                               *)
(***************************************************************************)
EXTENDS SequencesExt

CONSTANTS Urls,   \* the addresses of pages
          Crawls  \* the crawls to model

\* One crawl: its arguments, and the web it meets.  Any page may fail if "faults";
\* pages[u] is the list of the links of page u.
CrawlType ==
  [ start       : Urls,
    max_pages   : Nat,
    max_depth   : Nat,
    max_workers : Nat \ {0},
    pages       : [Urls -> Seq(Urls)],
    faults      : BOOLEAN ]

ASSUME CrawlAssumption == Crawls \subseteq CrawlType

VARIABLES crawl,    \* the crawl that runs; never changes
          queue,    \* the links that wait, with their depth
          visited,  \* the addresses tried
          results,  \* the pages found, in order
          futures,  \* the calls not collected yet, in the order of submission
          pc,       \* where the main thread is
          at,       \* the entry of futures it looks at
          links     \* the links of that entry it has not looked at

pool == <<visited, results>>
main == <<pc, at, links>>
vars == <<crawl, queue, futures, pool, main>>

\* A call of crawl_page: it asks for the page, has noted the outcome, has returned.
States == {"asking", "noted", "done"}

Full      == Len(results) >= crawl.max_pages
UrlsOf(s) == {s[i].url : i \in DOMAIN s}
Goto(label) == pc' = label /\ UNCHANGED <<at, links>>

Init ==
  /\ crawl \in Crawls
  /\ queue = <<[url |-> crawl.start, depth |-> 0]>>
  /\ visited = {}
  /\ results = <<>>
  /\ futures = <<>>
  /\ pc = "loop"
  /\ at = 1
  /\ links = <<>>

-----------------------------------------------------------------------------
(* spider: the main thread *)

Loop ==
  /\ pc = "loop"
  /\ Goto(IF ~Full /\ (queue # <<>> \/ futures # <<>>) THEN "fill" ELSE "shutdown")
  /\ UNCHANGED <<crawl, queue, futures, pool>>

\* Variants named after a mistake are not part of the crawler: each is what a plausible
\* bug would make of the definition that follows it.
RoomAndOne == Len(futures) <= crawl.max_workers
Room == Len(futures) < crawl.max_workers

\* The condition of the inner loop, which a worker may make false before Submit.
Fill ==
  /\ pc = "fill"
  /\ Goto(IF queue # <<>> /\ Room /\ ~Full THEN "submit"
          ELSE IF futures # <<>> THEN "wait" ELSE "loop")
  /\ UNCHANGED <<crawl, queue, futures, pool>>

Submit ==
  /\ pc = "submit"
  /\ LET next == Head(queue)
     IN  futures' = IF next.url \in visited \/ next.depth > crawl.max_depth THEN futures
                    ELSE Append(futures, [url |-> next.url, depth |-> next.depth,
                                          state |-> "asking", result |-> FALSE])
  /\ queue' = Tail(queue)
  /\ Goto("fill")
  /\ UNCHANGED <<crawl, pool>>

\* wait returns when a call is done, or after a second.
Wait ==
  /\ pc = "wait"
  /\ pc' = "collect"
  /\ at' = 1
  /\ UNCHANGED <<crawl, queue, futures, pool, links>>

\* A variant for the check of Ends: a call without a result is never removed.
CollectResults ==
  /\ pc = "collect" /\ at \in DOMAIN futures
  /\ IF futures[at].state = "done" /\ futures[at].result
     THEN /\ pc' = "links" /\ at' = at
          /\ links' = IF futures[at].depth < crawl.max_depth THEN crawl.pages[futures[at].url] ELSE <<>>
     ELSE pc' = pc /\ at' = at + 1 /\ links' = links
  /\ UNCHANGED <<crawl, queue, futures, pool>>

\* A variant for the check of NothingForgotten: a call is removed whether it is done or not.
CollectHasty ==
  /\ pc = "collect" /\ at \in DOMAIN futures
  /\ pc' = "links" /\ at' = at
  /\ links' = IF futures[at].result /\ futures[at].depth < crawl.max_depth
              THEN crawl.pages[futures[at].url] ELSE <<>>
  /\ UNCHANGED <<crawl, queue, futures, pool>>

\* A variant for the check of TypeOK: the links of the pages at the greatest depth too.
CollectDeeper ==
  /\ pc = "collect" /\ at \in DOMAIN futures
  /\ IF futures[at].state = "done"
     THEN /\ pc' = "links" /\ at' = at
          /\ links' = IF futures[at].result THEN crawl.pages[futures[at].url] ELSE <<>>
     ELSE pc' = pc /\ at' = at + 1 /\ links' = links
  /\ UNCHANGED <<crawl, queue, futures, pool>>

\* The call at hand is left alone unless it is done; only a page has links.
Collect ==
  /\ pc = "collect" /\ at \in DOMAIN futures
  /\ IF futures[at].state = "done"
     THEN /\ pc' = "links" /\ at' = at
          /\ links' = IF futures[at].result /\ futures[at].depth < crawl.max_depth
                      THEN crawl.pages[futures[at].url] ELSE <<>>
     ELSE pc' = pc /\ at' = at + 1 /\ links' = links
  /\ UNCHANGED <<crawl, queue, futures, pool>>

Collected ==
  /\ pc = "collect" /\ at \notin DOMAIN futures
  /\ Goto("loop")
  /\ UNCHANGED <<crawl, queue, futures, pool>>

\* A link is looked up among the visited, and if it is not there among the others.
Unvisited ==
  /\ pc = "links" /\ links # <<>>
  /\ IF Head(links) \in visited
     THEN pc' = pc /\ links' = Tail(links)
     ELSE pc' = "known" /\ links' = links
  /\ UNCHANGED <<crawl, queue, futures, pool, at>>

\* A variant for the check of AskedOnce: the calls in flight are forgotten.
KnownInQueue(u) == u \in UrlsOf(queue)
Known(u) == u \in UrlsOf(queue) \cup UrlsOf(futures)

\* A variant for the check of DepthIsAPath: the depth of the page.
EnqueueLevel ==
  /\ pc = "known"
  /\ queue' = IF Known(Head(links)) THEN queue
              ELSE Append(queue, [url |-> Head(links), depth |-> futures[at].depth])
  /\ pc' = "links" /\ links' = Tail(links)
  /\ UNCHANGED <<crawl, futures, pool, at>>

Enqueue ==
  /\ pc = "known"
  /\ queue' = IF Known(Head(links)) THEN queue
              ELSE Append(queue, [url |-> Head(links), depth |-> futures[at].depth + 1])
  /\ pc' = "links" /\ links' = Tail(links)
  /\ UNCHANGED <<crawl, futures, pool, at>>

\* del futures[future]
Discard ==
  /\ pc = "links" /\ links = <<>>
  /\ futures' = RemoveAt(futures, at)
  /\ Goto("collect")
  /\ UNCHANGED <<crawl, queue, pool>>

\* Leaving the block of the executor waits for every call.
Shutdown ==
  /\ pc = "shutdown"
  /\ \A i \in DOMAIN futures : futures[i].state = "done"
  /\ Goto("done")
  /\ UNCHANGED <<crawl, queue, futures, pool>>

-----------------------------------------------------------------------------
(* crawl_page: the workers *)

\* The page is there: one section of the lock.
PageFound(i) ==
  /\ futures[i].state = "asking"
  /\ visited' = visited \cup {futures[i].url}
  /\ results' = Append(results, [url |-> futures[i].url, depth |-> futures[i].depth])
  /\ futures' = [futures EXCEPT ![i].state = "noted", ![i].result = TRUE]
  /\ UNCHANGED <<crawl, queue, main>>

\* Another status than 200, or an exception.
PageFails(i) ==
  /\ crawl.faults
  /\ futures[i].state = "asking"
  /\ visited' = visited \cup {futures[i].url}
  /\ futures' = [futures EXCEPT ![i].state = "noted"]
  /\ UNCHANGED <<crawl, queue, results, main>>

PageReturns(i) ==
  /\ futures[i].state = "noted"
  /\ futures' = [futures EXCEPT ![i].state = "done"]
  /\ UNCHANGED <<crawl, queue, pool, main>>

Worker(i) == PageFound(i) \/ PageFails(i) \/ PageReturns(i)
Main == \/ Loop \/ Fill \/ Submit \/ Wait \/ Collect \/ Collected
        \/ Unvisited \/ Enqueue \/ Discard \/ Shutdown

Terminated == pc = "done" /\ UNCHANGED vars

Next == Main \/ (\E i \in DOMAIN futures : Worker(i)) \/ Terminated

Spec == Init /\ [][Next]_vars

\* Threads are scheduled, and every request ends: requests.get has a timeout.
Answers(u) == \E i \in DOMAIN futures : futures[i].url = u /\ Worker(i)
Fairness == WF_vars(Main) /\ \A u \in Urls : WF_vars(Answers(u))
FairSpec == Spec /\ Fairness
-----------------------------------------------------------------------------
(* Properties *)

TypeOK ==
  /\ crawl \in Crawls
  /\ queue \in Seq([url : Urls, depth : 0..crawl.max_depth])
  /\ visited \subseteq Urls
  /\ results \in Seq([url : Urls, depth : 0..crawl.max_depth])
  /\ futures \in Seq([ url : Urls, depth : 0..crawl.max_depth, state : States, result : BOOLEAN ])
  /\ pc \in {"loop", "fill", "submit", "wait", "collect", "links", "known", "shutdown", "done"}
  /\ at \in 1 .. Len(futures) + 1
  /\ links \in Seq(Urls)

\* No address is asked for twice: not while a call for it is under way, nor after one
\* was, although a link is tested against visited, the queue and the calls in flight one
\* after the other while the workers go on.
AskedOnce ==
  /\ \A i, j \in DOMAIN futures : i # j => futures[i].url # futures[j].url
  /\ \A i \in DOMAIN futures : futures[i].state = "asking" => futures[i].url \notin visited
  /\ \A i, j \in DOMAIN results : i # j => results[i].url # results[j].url

\* The calls in flight when max_pages is reached still add their pages, but no more
\* than the other workers of the pool can have been sent for.
OverrunBounded == Len(results) < crawl.max_pages + crawl.max_workers

\* A page has the depth of a page that links to it plus one; only the start has none.
DepthIsAPath ==
  \A r \in ToSet(results) :
    \/ r = [url |-> crawl.start, depth |-> 0]
    \/ \E s \in ToSet(results) : /\ r.depth = s.depth + 1
                                 /\ r.url \in ToSet(crawl.pages[s.url])

\* A crawl that ends below max_pages has tried the start and every link of every page
\* it found above max_depth: no link is lost between the three places it may be in.
NothingForgotten ==
  pc = "done" /\ ~Full =>
    /\ crawl.start \in visited
    /\ \A r \in ToSet(results) :
         r.depth < crawl.max_depth => ToSet(crawl.pages[r.url]) \subseteq visited

\* The crawl ends, whatever fails and however the pages link to one another.
Ends == <>(pc = "done")
=============================================================================
