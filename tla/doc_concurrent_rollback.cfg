SPECIFICATION Spec
CONSTANTS
  Syncers = {timer, button}
  MaxSequence = 3
  MaxTime = 2
  MaxAge = 2
  Tolerance = 0
  Retries = 1
  MaxFaults = 0
  Misbehaves = FALSE
  timer = timer
  button = button
PROPERTIES NoRollback
