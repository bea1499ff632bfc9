SPECIFICATION Spec
CONSTANTS
  Filters <- AllFilters
  Frames <- AllFrames
  MaxOffset = 27
  ScratchCells = 2
  Services <- Known_
  Hosts <- Looked
INVARIANTS ParsedAsWritten WellFormed VerdictIsMeaning
PROPERTIES OptimizerKeepsVerdicts
