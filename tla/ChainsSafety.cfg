SPECIFICATION FairSpec
CONSTANTS
  None = None
  Unknown = Unknown
  Subject = {"A", "B"}
  Artifact <- SmallArtifacts
  r1 = r1
  r2 = r2
  r3 = r3
  Request = {r1, r2, r3}
  Body <- SmallBodies
  MaxOpen = 2
INVARIANTS ProposalPlacesOnce MembershipsOK AloneHeals
PROPERTIES EveryAppendEnds
CHECK_DEADLOCK FALSE
