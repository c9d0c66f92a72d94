SPECIFICATION LiveSpec
CONSTANTS
  Jobs = {j1}
  NoJob = NoJob
  Effective <- MCWithinCooldown
  Cooldown = 2
  Workers = {w1, w2}
  NoWorker = NoWorker
  Sites = {erp1, erp2}
  NoSite = NoSite
  Scopes = {s1}
  ScopeOf <- MCOneScope
  Verified = TRUE
  MaxAttempts = 2
  Budgets = {1, 2}
  LeaseTicks = 2
  RetryDelays = {0, 1}
  WindowTicks = 1
  ExtendTicks = 1
  WatcherStalls = FALSE
  j1 = j1
  j2 = j2
  s1 = s1
  w1 = w1
  w2 = w2
INVARIANTS
  AtMostOneCheckin
  DeliveredNamesCheckin
PROPERTIES
  ImplementsCheckinDelivery EveryJobSettles
