CONSTANTS
  Endpoints <- MCEndpoints
  SyncPeriod = 1
  SyncLost = 3
  ParamTimeout = 0
  HostLost = 4
  MaxUses = 3
  AttemptInterval = 1
  TimeoutInterval = 3
  MaxQueue = 8
  MaxFaults = 2
  MaxEvents = 3
SPECIFICATION Spec
INVARIANTS OnlyFaultsHide CallTrue ParamTrue CallersTrue
PROPERTY Recovers
CHECK_DEADLOCK FALSE
