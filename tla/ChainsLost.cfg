SPECIFICATION FairSpec
CONSTANTS
  None = None
  Unknown = Unknown
  r1 = r1
  r2 = r2
  r3 = r3
  Subject = {"A", "B"}
  Artifact <- SmallArtifacts
  Request = {r1, r2, r3}
  Body <- SmallBodies
  MaxOpen = 2
INVARIANTS EffectiveIsFold
CHECK_DEADLOCK FALSE
