SPECIFICATION LifeSpec
CONSTANTS
  N = 3
  DeviceIds <- MCDeviceIds
  BusOf <- MCBusOf
  MaxCrashes = 1
  MaxFaults = 1
  Configs <- MCConfigs
  HasColor = {TRUE, FALSE}
  PowerOn <- MCPowerOn
  Supported <- MCSupported
  Calibrated <- MCCalibrated
  MaxDriverFaults = 1
INVARIANTS OneAtATime OwnDevice Settled FrameMatches
PROPERTIES EveryDriverBoots
CHECK_DEADLOCK FALSE
