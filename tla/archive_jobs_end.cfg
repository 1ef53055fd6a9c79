SPECIFICATION FairSpec
CONSTANTS
  MaxJobs = 2
  Event = {e1}
  Bookmaker = {bwin}
  Run = {r1, r2}
  Concurrency = 2
  MaxTroubles = 3
PROPERTY EveryJobEnds
CHECK_DEADLOCK FALSE
