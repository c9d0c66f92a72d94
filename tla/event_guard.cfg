SPECIFICATION Spec
CONSTANTS
  c1 = c1
  c2 = c2
  s1 = s1
  s2 = s2
  Captures = {c1, c2}
  NoCapture = NoCapture
  Watchers = {w1}
  Operators = {}
  NoOwner = NoOwner
  Dead = Dead
  Scopes = {s1, s2}
  FaceScopes <- PairThenOne
  EffectiveAt <- Apart
  Cooldown = 2
  WorkerMode = FALSE
  Deletes = TRUE
  Quarantines = TRUE
  LeaseTicks = 1
  WindowTicks = 2
  MaxAttempts = 3
  MaxUploads = 2
  MaxActions = 0
  MaxFaults = 2
  QuarantineOnly = TRUE
  DoubtsFail = FALSE
  Stalls = FALSE
INVARIANTS SubmissionGuardsScope CooldownKept
CHECK_DEADLOCK FALSE
