\* One sale, the service worker once, any two faults.
CONSTANTS
  Sales = {1}
  Posts = {1, 2, 3}
  Faults = {"offline", "loss", "crash", "reload", "refuse", "sale", "floor"}
  MaxFaults = 2
  MaxRuns = 1
SPECIFICATION FairSpec
INVARIANTS
  SoldOnce
  SyncedMeansSettled
PROPERTIES
  CancelHolds
  EventuallyHandled
CHECK_DEADLOCK FALSE
