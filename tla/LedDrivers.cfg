SPECIFICATION Spec
CONSTANTS
  p1 = p1  p2 = p2  p3 = p3
  Process <- ThreeProcess
  Led = {5, 6}
  Minor = {0, 1}
  NoProcess = NoProcess
  NoMinor = NoMinor
  Driver = {"shared", "minors", "sem", "spinlock", "atomic", "atomic_up"}
  Sharer <- TwoProcess
SYMMETRY Symmetry2
INVARIANTS OneShadowMatchesRegister ExclusiveHolder ReadsOwnWritesIfExclusive AvailableAccounts
PROPERTIES OnlyOwnLed ExclusiveSpec
