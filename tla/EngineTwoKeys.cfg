SPECIFICATION Spec
CONSTANTS
  Response = {"valid", "repairable", "unrepairable", "oversized"}
  None = None
  e1 = e1
  Key = {k1, k2}
  Entity = {e1}
  Caller = {r1, r2}
  Instant = {1}
  MaxRepair = 0
  Request <- TwoRevisions
  Policy <- PlainPolicy
SYMMETRY CallerKeySymmetry
INVARIANTS HistoryIsWhole NoLostMemoryUpdate
PROPERTIES KeepsPromise
CHECK_DEADLOCK FALSE
