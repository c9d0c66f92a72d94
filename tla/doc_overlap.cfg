SPECIFICATION Spec
CONSTANTS
  c1 = c1
  c2 = c2
  s1 = s1
  s2 = s2
  Captures = {c1}
  NoCapture = NoCapture
  Watchers = {w1, w2}
  Operators = {}
  NoOwner = NoOwner
  Dead = Dead
  Scopes = {s1}
  FaceScopes <- OneFace
  EffectiveAt <- Alone
  Cooldown = 2
  WorkerMode = FALSE
  Deletes = TRUE
  Quarantines = TRUE
  LeaseTicks = 1
  WindowTicks = 2
  MaxAttempts = 3
  MaxUploads = 1
  MaxActions = 0
  MaxFaults = 1
  QuarantineOnly = TRUE
  DoubtsFail = FALSE
  Stalls = FALSE
INVARIANTS SubmissionGuardsScope
CHECK_DEADLOCK FALSE
