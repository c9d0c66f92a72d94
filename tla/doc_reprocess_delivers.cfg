SPECIFICATION Spec
CONSTANTS
  c1 = c1
  c2 = c2
  s1 = s1
  s2 = s2
  Captures = {c1}
  NoCapture = NoCapture
  Watchers = {w1}
  Operators = {o1}
  NoOwner = NoOwner
  Dead = Dead
  Scopes = {s1}
  FaceScopes <- OneFace
  EffectiveAt <- Alone
  Cooldown = 2
  WorkerMode = TRUE
  Deletes = FALSE
  Quarantines = TRUE
  LeaseTicks = 1
  WindowTicks = 2
  MaxAttempts = 3
  MaxUploads = 1
  MaxActions = 1
  MaxFaults = 0
  QuarantineOnly = FALSE
  DoubtsFail = FALSE
  Stalls = FALSE
INVARIANTS SubmittedOnce
CHECK_DEADLOCK FALSE
