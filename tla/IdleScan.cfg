\* Shared and private zombies, lost, late and raising calls, uneven splits.
SPECIFICATION Spec
CONSTANTS
  near = near
  far = far
  z1 = z1
  z2 = z2
  Targets = {near, far}
  Ports = {1, 2, 3}
  Texts = {banner}
  Zombies = {z1, z2}
  IdSpace = 32
  MaxThreads = 3
  Scans <- MCScans
INVARIANTS OneVerdict ClosedIsNotOpen SoleWorkerExact
PROPERTIES LedgerKept
