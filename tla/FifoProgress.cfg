SPECIFICATION FairSpec
CONSTANTS
  p1 = p1  p2 = p2  p3 = p3
  Process <- TwoProcess
  Byte <- OneByte
  Zero = 0
  GLOBALFIFO_SIZE = 2
  Counts = {0, 1, 2}
  Ops = {"read", "write", "poll"}
  HasFasync = FALSE
INVARIANTS WriterSleepsOnlyWhileFull QueuesHoldOnlyCallers
PROPERTIES CallEndsOrSleeps WokenCallReturns
