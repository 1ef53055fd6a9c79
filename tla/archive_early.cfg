SPECIFICATION Spec
CONSTANTS
  Null = Null
  Match = {m1}
  Worker = {w1, w2}
  MaxConcurrent = 2
  BatchSize = 2
  Lookback = 2
  BackfillLimit = 1
  FinishGrace = 1
  EnrichmentMargin = 0
  Kickoffs <- OneKickoff
  MaxTime = 3
  MaxMoves = 0
  MaxFaults = 0
  MaxCrashes = 0
  MaxArchives = 1
  UpcomingWindow = 1
  RecentWindow = 1
  JustStarted = 0
  MaxMatchAge = 1
  FastWindow = 0
  MonitoringInterval = 1
  FinalInterval = 1
  DiscoveryInterval = 1
INVARIANT FinalizedMeansWindowOver
CHECK_DEADLOCK FALSE
