SPECIFICATION LiveSpec
CONSTANTS
  Services = {watch, web}
  Latest = 3
  MaxWrites = 2
  MaxFaults = 2
  watch = watch
  web = web
INVARIANTS TypeOK RunsOnLatest
PROPERTIES RestorableFirst ComesUp
CHECK_DEADLOCK FALSE
