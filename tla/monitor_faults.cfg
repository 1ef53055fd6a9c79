SPECIFICATION Spec
CONSTANTS
  Null = Null
  Match = {m1}
  Worker = {w1, w2}
  MaxConcurrent = 1
  BatchSize = 2
  Lookback = 1
  BackfillLimit = 1
  FinishGrace = 1
  EnrichmentMargin = 0
  Kickoffs <- MovingKickoffs
  MaxTime = 3
  MaxMoves = 1
  MaxFaults = 1
  MaxCrashes = 1
  MaxArchives = 1
  UpcomingWindow = 1
  RecentWindow = 1
  JustStarted = 0
  MaxMatchAge = 1
  FastWindow = 0
  MonitoringInterval = 1
  FinalInterval = 1
  DiscoveryInterval = 1
INVARIANT TypeOK
INVARIANT NoMatchForgotten
INVARIANT PendingWritesKeepTrack
INVARIANT PlansEndWithWindow
PROPERTY FinalizedForever
CHECK_DEADLOCK FALSE
