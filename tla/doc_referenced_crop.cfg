SPECIFICATION Spec
CONSTANTS
  Decisions = {d1}
  NoDecision = NoDecision
  Watchers = {w1}
  Workers = {k1}
  NoOwner = NoOwner
  LeaseTicks = 1
  DelayTicks = 1
  GraceTicks = 1
  MaxAttempts = 2
  MaxDeliveries = 2
  MaxJobs = 2
  DeletesCopy = TRUE
  MaxFaults = 0
  DoubtsFail = FALSE
  Stalls = TRUE
  d1 = d1
  w1 = w1
  k1 = k1
PROPERTIES ReferencedRetained
CHECK_DEADLOCK FALSE
