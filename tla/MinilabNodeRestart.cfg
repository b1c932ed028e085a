SPECIFICATION FairSpec
CONSTANTS
  Cmds <- MCCmdsFew
  QueueSize = 1
  Timeout = 2
  MinLoop = 1
  MaxLoop = 2
  MaxCrash = 1
  Lossy = FALSE
PROPERTY NullVelocity
