SPECIFICATION Spec
CONSTANTS
  Buffer = {b1, b2, b3, b4}
  NoBuffer = none
  Formats = {"yuyv", "uyvy", "mjpeg", "yuvmono10", "rgb24", "grey", "unknown"}
  Methods = {"read", "mmap", "userptr", "unknown"}
  Devices <- MCDevices
  Period = 2
  Timeout = 3
  MaxInterrupts = 1
  MaxFailures = 1
  MaxAge = 14
  SampleColours <- MCColours
  SampleLevels <- MCLevels
SYMMETRY Symmetry
INVARIANTS RingKept FreshEnough ColoursTrue
CHECK_DEADLOCK FALSE
