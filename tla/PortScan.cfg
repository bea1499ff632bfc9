\* TCP, SYN and UDP scans with retries, exceptions, repeated targets and ports.
SPECIFICATION FairSpec
CONSTANTS
  remote = remote
  other = other
  local = local
  Targets = {remote, other, local}
  Loopback = {local}
  Ports = {22, 80, 443}
  Texts = {banner}
  MaxThreads = 3
  Scans <- MCScans
INVARIANTS TypeOK OneVerdict NoPortLost ReportedOnce ServicesAlign
PROPERTIES ReportedIsFinal LedgerKept Termination
