SPECIFICATION Spec
CONSTANTS
  Threads <- MCThreads
  Configs <- MCConfigs
  MinAngle = 1
  MaxAngle = 3
  SafeSpan = 1
  IsUTM = TRUE
  HasIntensity = FALSE
  Retries = 1
  MaxFaults = 1
  MaxRequests = 1
  Radix = 4
  LineSize = 4
  ClockSpan = 4
  MaxReadings = 20
  SampleData <- MCSampleData
  SampleSteps <- MCSampleSteps
INVARIANTS OneTalker Released AnglesChecked DataTrue
PROPERTIES Survives Recovers
CHECK_DEADLOCK FALSE
