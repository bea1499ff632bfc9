\* Every method, recursive discoveries inside a worker, and a ping scan.
SPECIFICATION FairSpec
CONSTANTS
  near = near
  far = far
  local = local
  Targets = {near, far, local}
  Loopback = {local}
  MaxThreads = 2
  Discoveries <- MCDiscoveries
INVARIANTS TypeOK AnsweringHostsListed OnlyHostsFound HostListedOnce
PROPERTIES UpIsNotShownDown DiscoveryEnds
