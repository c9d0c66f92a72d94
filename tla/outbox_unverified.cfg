SPECIFICATION Spec
CONSTANTS
  Jobs = {j1, j2}
  NoJob = NoJob
  Effective <- MCAfterCooldown
  Cooldown = 2
  Workers = {w1, w2}
  NoWorker = NoWorker
  Sites = {erp1}
  NoSite = NoSite
  Scopes = {s1}
  ScopeOf <- MCOneScope
  Verified = FALSE
  MaxAttempts = 2
  Budgets = {2}
  LeaseTicks = 1
  RetryDelays = {0}
  WindowTicks = 1
  ExtendTicks = 1
  WatcherStalls = FALSE
  j1 = j1
  j2 = j2
  s1 = s1
  w1 = w1
  w2 = w2
INVARIANTS
  AtMostOneCheckin
  OneInFlightPerScope
  UncertainBlocksScope
PROPERTIES
  OnlyHolderEndsLease
  SettledStays
SYMMETRY Symmetry
