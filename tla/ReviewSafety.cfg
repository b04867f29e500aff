SPECIFICATION Spec
CONSTANTS
  None = None
  r1 = r1
  r2 = r2
  r3 = r3
  r4 = r4
  Request = {r1, r2, r3, r4}
  Operation <- SmallOperation
  Occurrence = {1, 2, 3}
  Authored = {1, 3}
  Instance = {1, 2}
  InstanceOf <- SmallInstanceOf
  PageLimit = 1
  MaxClock = 1
  MaxCrashes = 1
INVARIANTS OverviewAgrees DecisionsFormALog ComparisonsAgree
PROPERTIES ReviewedIsTrue
CHECK_DEADLOCK FALSE
