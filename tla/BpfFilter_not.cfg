SPECIFICATION Spec
CONSTANTS
  Filters <- NotTcp
  Frames <- AllFrames
  MaxOffset = 27
  ScratchCells = 2
  Services <- Known_
  Hosts <- Looked
INVARIANTS EveryVerdictIsMeaning
