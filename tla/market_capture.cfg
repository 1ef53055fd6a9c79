SPECIFICATION FairSpec
CONSTANTS
  Call = {c1}
  Market <- MCMarket
  Answers <- MCAnswers
  MaxRetries = 2
  MaxMarkets = 2
  QueueSize = 1
  BatchSize = 2
  MaxFaults = 1
INVARIANTS
  TypeOK
  ResultIsStored
  RowsInOrder
  AttemptsRecorded
PROPERTIES
  ImplementsWriteService
  EveryCallEnds
CHECK_DEADLOCK FALSE
