SPECIFICATION FairSpec
CONSTANTS
  N = 2
  Readings <- MCReadings
  Cmds <- MCCmds
INVARIANTS GateHolds StopHasCause StoppedCommandStaysDead UnpassedCommandKept
PROPERTY CommandGetsThrough
