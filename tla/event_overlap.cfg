SPECIFICATION Spec
CONSTANTS
  c1 = c1
  c2 = c2
  s1 = s1
  s2 = s2
  Captures = {c1}
  NoCapture = NoCapture
  Watchers = {w1, w2}
  Operators = {o1, o2}
  NoOwner = NoOwner
  Dead = Dead
  Scopes = {s1}
  FaceScopes <- OneFace
  EffectiveAt <- Alone
  Cooldown = 2
  WorkerMode = FALSE
  Deletes = TRUE
  Quarantines = TRUE
  LeaseTicks = 1
  WindowTicks = 2
  MaxAttempts = 4
  MaxUploads = 2
  MaxActions = 3
  MaxFaults = 1
  QuarantineOnly = TRUE
  DoubtsFail = TRUE
  Stalls = FALSE
INVARIANTS SubmittedOnce OneSubmitter
CHECK_DEADLOCK FALSE
