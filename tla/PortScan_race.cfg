\* Two threads record two open ports of one target with their banners.
SPECIFICATION FairSpec
CONSTANTS
  remote = remote
  other = other
  local = local
  Targets = {remote, other, local}
  Loopback = {local}
  Ports = {22, 80, 443}
  Texts = {banner}
  MaxThreads = 3
  Scans <- MCRace
INVARIANTS ServicesMatchPorts
