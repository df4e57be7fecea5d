SPECIFICATION Spec
CONSTANTS
  p1 = p1  p2 = p2  p3 = p3
  Process <- TwoProcess
  Byte <- TwoBytes
  Zero = 0
  GLOBALFIFO_SIZE = 2
  Counts = {0, 1, 2}
  Ops = {"read", "write", "ioctl", "poll"}
  HasFasync = TRUE
SYMMETRY Symmetry2
INVARIANTS TypeOK MutualExclusion ClampStillValid ReaderSleepsOnlyWhileEmpty AsyncQueueOpen
PROPERTY StreamSpec
