SPECIFICATION Spec
CONSTANTS
  Builds = {"ycbcr", "rgb"}
  Modes <- SmallModes
INVARIANTS StoresInBuffer BarsMatchPixels
CHECK_DEADLOCK FALSE
