SPECIFICATION FairSpec
CONSTANTS
  Caller = {c1, c2, c3}
  Key = {k1, k2}
  NoKey = NoKey
  Worker = {w1, w2}
  KickoffWorker = kw
  Priority <- TwoPriorities
  QueueSize = 1
  KickoffSize = 1
  HealthyTarget = 1
  Cooldown = 1
  MaxRequests = 3
  MaxFailures = 1
  MaxCloses = 1
INVARIANT TypeOK
INVARIANT PendingIsCarried
INVARIANT ActiveCountsFetches
INVARIANT OneFetchPerKey
PROPERTY ImplementsSingleFlight
PROPERTY EveryCallerIsAnswered
CHECK_DEADLOCK FALSE
