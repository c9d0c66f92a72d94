SPECIFICATION LiveSpec
CONSTANTS
  Syncers = {timer}
  MaxSequence = 3
  MaxTime = 2
  MaxAge = 1
  Tolerance = 0
  Retries = 1
  MaxFaults = 2
  Misbehaves = TRUE
  timer = timer
INVARIANTS TypeOK InstalledFirst
PROPERTIES NoRollback NeverReactivated Converges
