SPECIFICATION Spec
CONSTANTS
  p1 = p1  p2 = p2  p3 = p3
  Process <- TwoProcess
  Byte <- OneByte
  Zero = 0
  GLOBALFIFO_SIZE = 1
  Counts = {1}
  Ops = {"read", "write", "ioctl"}
  HasFasync = FALSE
INVARIANTS WriterSleepsOnlyWhileFull
