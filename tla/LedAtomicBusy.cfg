SPECIFICATION Spec
CONSTANTS
  p1 = p1  p2 = p2  p3 = p3
  Process <- ThreeProcess
  Led = {5}
  Minor = {0}
  NoProcess = NoProcess
  NoMinor = NoMinor
  Preemption = TRUE
PROPERTY ExclusiveSpec
