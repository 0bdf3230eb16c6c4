\* Three requests, every fault, fair scheduling.
CONSTANTS
  r1 = r1
  r2 = r2
  r3 = r3
  Requests = {r1, r2, r3}
  None = None
  Faults = {"slow", "crash", "storeError", "expiry"}
SPECIFICATION FairSpec
INVARIANTS
  TypeOK
  RepeatsAreExcused
  ReplaysAgree
PROPERTIES
  KeepsPromise
  StoredForGood
  EveryRequestAnswered
