\* Two connections, two accounts, a document under two keys, reversals under two
\* keys, the repair and the lock of the period.
CONSTANTS
  s1 = s1
  s2 = s2
  s3 = s3
  saleKey = saleKey
  repostKey = repostKey
  voidKey = voidKey
  adminKey = adminKey
  sale = sale
  cash = cash
  revenue = revenue
  Sessions = {s1, s2}
  Keys = {saleKey, repostKey}
  RefOf <- OneReference
  ReversalKeys = {voidKey, adminKey}
  Accounts = {cash, revenue}
  Side <- DebitCash
  MaxJournals = 3
  MaxCalls = 2
  MayHeal = TRUE
  None = None
SPECIFICATION Spec
SYMMETRY Symmetry
INVARIANTS
  OneLivePerKey
  CacheIsPostedSum
  DuplicatesExplained
  DoubleReversalsOverlapped
  RepeatedNumbersAreReversals
  PostingsNeverDeadlock
PROPERTIES
  LateJournalsOverlapped
