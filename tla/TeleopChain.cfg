SPECIFICATION Spec
CONSTANTS
  Ranges <- MCRanges
  Scans <- MCScans
  Cmds <- MCCmds
  QueueSize = 1
  Timeout = 3
  MinLoop = 1
  MaxLoop = 2
  GatePeriod = 1
INVARIANTS ObstacleStops SilenceUnnoticed
