SPECIFICATION FairSpec
CONSTANTS
  Response = {"valid", "repairable"}
  None = None
  e1 = e1
  Key = {k1}
  Entity = {e1}
  Caller = {r1, r2}
  Instant = {1}
  MaxRepair = 1
  Request <- FirstRevision
  Policy <- MixedPolicies
INVARIANTS DispatchedAtMostOnce EndedAsRecorded CommittedFromRecordedResponse
PROPERTIES EveryCallEnds StrandedIsHopeless
CHECK_DEADLOCK FALSE
