SPECIFICATION Spec
CONSTANTS
  Base = 4
  IntMax = 7
  InputSize = 2
  Topics <- MCTopics
  Payloads <- MCPayloads
  MSG_TIMEOUT = 3
  SpinGap = 1
  FrameTime = 1
  MaxSent = 2
  MaxFaults = 1
CHECK_DEADLOCK FALSE
INVARIANTS InOrder FreshFrameHandled

