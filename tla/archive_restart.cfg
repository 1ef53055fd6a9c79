SPECIFICATION Spec
CONSTANTS
  MaxJobs = 1
  Event = {e1, e2}
  Bookmaker = {bwin}
  Run = {r1}
  Concurrency = 2
  MaxTroubles = 1
PROPERTY ProgressSurvives
CHECK_DEADLOCK FALSE
