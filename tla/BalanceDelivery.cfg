\* One event at a time with a sweep; faults use up the retries.
CONSTANTS
  j1 = j1
  j2 = j2
  s1 = s1
  s2 = s2
  None = None
  Journals = {j1, j2}
  Sessions = {s1, s2}
  Tuples <- OneTuple
  Periods <- OnePeriod
  PeriodOf <- PeriodOfOne
  Touches <- BothTouchOne
  BatchSize = 1
  MaxRetries = 2
  MaxFaults = 3
  Swept = TRUE
  Ways <- Own
SPECIFICATION FairSpec
INVARIANTS
  TypeOK
PROPERTIES
  EventsSettle
CHECK_DEADLOCK FALSE
