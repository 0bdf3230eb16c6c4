\* Two sessions over the same two rows: polls, direct rebuilds and inline postings.
CONSTANTS
  j1 = j1
  j2 = j2
  s1 = s1
  s2 = s2
  None = None
  Journals = {j1, j2}
  Sessions = {s1, s2}
  Tuples <- TwoTuples
  Periods <- OnePeriod
  PeriodOf <- PeriodOfTwo
  Touches <- BothTouchBoth
  BatchSize = 2
  MaxRetries = 2
  MaxFaults = 0
  Swept = FALSE
  Ways <- OwnAndInline
SPECIFICATION Spec
SYMMETRY Alike
INVARIANTS
  WorkersNeverDeadlock
CHECK_DEADLOCK FALSE
