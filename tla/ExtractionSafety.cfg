SPECIFICATION FairSpec
CONSTANTS
  None = None
  Source <- SmallParts
  MaxUnits = 2
  TargetWords = 4
  Run = {r1, r2}
  Ceiling = 2
  MaxRepair = 1
  MaxCrashes = 1
INVARIANTS WindowsPartition CompleteMeansShown TablesAgree
PROPERTIES EveryRunEnds
CHECK_DEADLOCK FALSE
