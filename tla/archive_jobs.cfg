SPECIFICATION Spec
CONSTANTS
  MaxJobs = 1
  Event = {e1, e2}
  Bookmaker = {bwin, unibet}
  Run = {r1, r2}
  Concurrency = 2
  MaxTroubles = 3
INVARIANT TypeOK
INVARIANT CompletedMeansArchived
INVARIANT ArchivedNotFetchedAgain
PROPERTY ArchivedForever
SYMMETRY Symmetry
CHECK_DEADLOCK FALSE
