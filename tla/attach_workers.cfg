SPECIFICATION LiveSpec
CONSTANTS
  Decisions = {d1}
  NoDecision = NoDecision
  Watchers = {w1}
  Workers = {k1, k2}
  NoOwner = NoOwner
  LeaseTicks = 2
  DelayTicks = 1
  GraceTicks = 1
  MaxAttempts = 2
  MaxDeliveries = 2
  MaxJobs = 2
  DeletesCopy = TRUE
  MaxFaults = 2
  DoubtsFail = FALSE
  Stalls = FALSE
  d1 = d1
  w1 = w1
  k1 = k1
  k2 = k2
INVARIANTS TypeOK UploadedOnce RowsAgree CropKept
PROPERTIES AttachmentsSettle SpoolCleared
CHECK_DEADLOCK FALSE
