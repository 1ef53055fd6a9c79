SPECIFICATION Spec
CONSTANTS
  Caller = {c1, c2, c3, c4}
  Key = {k1, k2, k3, k4}
  NoKey = NoKey
  Worker = {w1, w2, w3}
  KickoffWorker = kw
  Priority <- TwoPriorities
  QueueSize = 2
  KickoffSize = 1
  HealthyTarget = 1
  Cooldown = 0
  MaxRequests = 4
  MaxFailures = 1
  MaxCloses = 0
SYMMETRY Symmetry
INVARIANT KickoffSlotReserved
CHECK_DEADLOCK FALSE
