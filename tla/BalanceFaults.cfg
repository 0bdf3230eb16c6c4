\* Two journals in one row, every way of writing them, one fault.
CONSTANTS
  j1 = j1
  j2 = j2
  s1 = s1
  s2 = s2
  None = None
  Journals = {j1, j2}
  Sessions = {s1, s2}
  Tuples <- OneTuple
  Periods <- OnePeriod
  PeriodOf <- PeriodOfOne
  Touches <- BothTouchOne
  BatchSize = 2
  MaxRetries = 2
  MaxFaults = 1
  Swept = FALSE
  Ways <- Everything
SPECIFICATION Spec
SYMMETRY Alike
INVARIANTS
  NoPhantoms
  DriftIsExcused
PROPERTIES
  DoneMeansCounted
CHECK_DEADLOCK FALSE
