SPECIFICATION FairSpec
CONSTANTS
  t1 = t1  t2 = t2
  Task <- TwoTask
  NoTask = NoTask
  N = 2
  Bottom = {"tasklet", "work"}
INVARIANTS PressHasBottomHalf LatestPressReported
PROPERTY PressIsLookedAt
