SPECIFICATION FairSpec
CONSTANTS
  t1 = t1  t2 = t2
  Task <- TwoTask
  Loaded <- AllDrivers
  Kernels = {"up", "smp"}
  HZ = 3
  WordSize = 16
INVARIANTS EverythingGivenBack GivenBackOnce CallsFindMemory CodeFindsModule
PROPERTIES UnloadEnds WakeReachesThread FirstAfterASecond TimerGoesOn
CHECK_DEADLOCK FALSE
