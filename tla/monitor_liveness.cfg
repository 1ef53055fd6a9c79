SPECIFICATION FairSpec
CONSTANTS
  Null = Null
  Match = {m1}
  Worker = {w1}
  MaxConcurrent = 1
  BatchSize = 2
  Lookback = 2
  BackfillLimit = 1
  FinishGrace = 1
  EnrichmentMargin = 0
  Kickoffs <- EarlyOrUnknown
  MaxTime = 3
  MaxMoves = 1
  MaxFaults = 1
  MaxCrashes = 1
  MaxArchives = 0
  UpcomingWindow = 1
  RecentWindow = 1
  JustStarted = 0
  MaxMatchAge = 1
  FastWindow = 0
  MonitoringInterval = 1
  FinalInterval = 1
  DiscoveryInterval = 0
PROPERTY EventuallyFinalized
PROPERTY EventuallyAttempted
CHECK_DEADLOCK FALSE
