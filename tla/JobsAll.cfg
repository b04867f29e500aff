SPECIFICATION FairSpec
CONSTANTS
  None = None
  Empty = Empty
  Garbled = Garbled
  Job = {j1, j2}
  Enqueuer = {e1, e2}
  Canceller = {c1}
  MaxSteps = 1
  MaxCrashes = 1
  MayMeet = FALSE
INVARIANTS OneAtATime RecordsAreTrue NoGhost
PROPERTIES HistoryIsFinal QueueAdvances
CHECK_DEADLOCK FALSE
