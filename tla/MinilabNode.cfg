SPECIFICATION FairSpec
CONSTANTS
  Cmds <- MCCmds
  QueueSize = 2
  Timeout = 3
  MinLoop = 1
  MaxLoop = 2
  MaxCrash = 1
  Lossy = TRUE
INVARIANTS WatchdogBound StopsInTime
PROPERTIES KeepsPromise SilenceStops
