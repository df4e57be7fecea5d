SPECIFICATION Spec
CONSTANTS
  t1 = t1  t2 = t2  f1 = f1  f2 = f2
  Task <- TwoTask
  File <- TwoFile
  NoMinor = NoMinor
  Zero = Zero
  Data = {One}
  Drivers = {"globalmem", "globalmem_two"}
  Size = 2
  WordSize = 4
  LoffMax = 7
  Counts = {1, 3}
  Offsets <- SomeOffsets
SYMMETRY Symmetry2
INVARIANTS CopyWithinMem PositionInRange PositionAddsUp UndisturbedCallIsExact SeekIsInteger
PROPERTY OnlyItsWritersChange
