SPECIFICATION FairSpec
CONSTANTS
  t1 = t1  t2 = t2  t3 = t3
  Task <- TwoTask
  NoTask = NoTask
  N = 2
INVARIANTS NoSleepOverEvent NoLostEvent LinesFollowFile KeyValuesFollowKeys
PROPERTY ValueReachesReader
