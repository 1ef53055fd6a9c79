SPECIFICATION FairSpec
CONSTANTS
  Price <- MCPrice
  Cents <- MCCents
  Offer <- MCOffer
  Final <- MCFinal
  Upload <- MCUpload
  Files <- MCFiles
  OldRecords <- MCOldRecords
  Folder <- MCFolder
  Request <- MCRequest
  Match = {m1, m2}
  Job = {j1, j2}
  None = None
  MaxEvents = 3
INVARIANTS
  TypeOK
  SignalsOfActiveData
  SignalsAccounted
  PlayedAccounted
  MatchingIsExact
  RowsAccounted
PROPERTIES
  RecomputeRestores
  ImportIsIdempotent
  EveryMaintenanceJobEnds
CHECK_DEADLOCK FALSE
