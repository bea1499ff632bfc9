\* An ACK ping of the ports given with --ping-port.
SPECIFICATION FairSpec
CONSTANTS
  near = near
  far = far
  local = local
  Targets = {near, far, local}
  Loopback = {local}
  MaxThreads = 2
  Discoveries <- MCAckChosen
INVARIANTS CountedHostsListed
