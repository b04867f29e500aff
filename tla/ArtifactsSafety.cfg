SPECIFICATION Spec
CONSTANTS
  r1 = r1
  r2 = r2
  r3 = r3
  r4 = r4
  Request = {r1, r2, r3, r4}
  NewVersion = FALSE
  Rolling = FALSE
  MaxCrashes = 1
SYMMETRY Symmetry
INVARIANTS ImportIsWhole ContentIsKept LifecycleIsOneStory
CHECK_DEADLOCK FALSE
