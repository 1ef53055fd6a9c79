SPECIFICATION Spec
CONSTANTS
  bwin = bwin
  unibet = unibet
  Group = {g1, g2}
  Bookmaker = {bwin, unibet}
  Tracked = {bwin, unibet}
  Requirements <- SomeRequirements
  ChunkSize = 1
  MaxSnapshots = 3
  MaxRepairs = 2
  MaxFaults = 1
  MaxChanges = 1
SYMMETRY Symmetry
INVARIANT TypeOK
INVARIANT AtMostOneFinal
INVARIANT FinalIsBest
INVARIANT ObservationsAreNewest
PROPERTY RepairRestores
CHECK_DEADLOCK FALSE
