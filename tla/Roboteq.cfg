SPECIFICATION QuietSpec
CONSTANTS
  StartAttempts = 3
  WrongLimit = 3
  AckTries = 4
  ScriptLines = 3
  MaxRx = 3
  MaxCmds = 3
  MaxStray = 3
  Prompt = TRUE
  Loaded <- Holdings
INVARIANT DownloadTrue
PROPERTIES LoadedForGood FeedbackFlows
