SPECIFICATION Spec
CONSTANTS
  Syncers = {timer}
  MaxSequence = 3
  MaxTime = 1
  MaxAge = 0
  Tolerance = 0
  Retries = 1
  MaxFaults = 0
  Misbehaves = FALSE
  timer = timer
PROPERTIES StaleBlocks
