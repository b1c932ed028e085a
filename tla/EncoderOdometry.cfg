SPECIFICATION Spec
CONSTANTS
  Half = 3
  Jump = 1
  Position <- MCPosition
  Firmware = 7
  MaxLate = 1
  MaxLost = 1
  MaxLoops = 3
VIEW View
CONSTRAINT Bound
INVARIANTS StepBounded TravelTrue OutOfStepForever
