\* Every kind of scan, two and three threads, retries, repeated ports.
SPECIFICATION FairSpec
CONSTANTS
  near = near
  far = far
  low = low
  mid = mid
  high = high
  Targets = {near, far}
  Ports = {low, mid, high}
  Texts = {banner}
  MaxThreads = 3
  Scans <- MCScans
INVARIANTS TypeOK OneVerdict ServicesAccountedFor
PROPERTIES LedgerKept Termination
