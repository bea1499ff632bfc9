\* Small webs crawled by one to three workers, down to depth 3, with limits below and
\* above the number of pages.
SPECIFICATION FairSpec
CONSTANTS
  home = home
  a = a
  b = b
  c = c
  d = d
  e = e
  Urls = {home, a, b, c, d, e}
  Crawls <- MCCrawls
INVARIANTS TypeOK AskedOnce OverrunBounded DepthIsAPath NothingForgotten
PROPERTIES Ends
