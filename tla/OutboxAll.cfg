SPECIFICATION FairDrainSpec
CONSTANTS
  Key = {1, 2}
  Turn <- KeyOrder
  Drain = {d1, d2}
  Limit = 1
  LeaseTimeout = 1
  MaxFaults = 1
INVARIANTS DeliveredWasAccepted CallsAreAccounted
PROPERTIES DeliveredIsFinal EventuallySettled
