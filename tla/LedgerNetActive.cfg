\* Two connections, without the repair.
CONSTANTS
  s1 = s1
  s2 = s2
  s3 = s3
  saleKey = saleKey
  repostKey = repostKey
  voidKey = voidKey
  adminKey = adminKey
  sale = sale
  cash = cash
  revenue = revenue
  Sessions = {s1, s2}
  Keys = {saleKey, repostKey}
  RefOf <- OneReference
  ReversalKeys = {voidKey, adminKey}
  Accounts = {cash, revenue}
  Side <- DebitCash
  MaxJournals = 3
  MaxCalls = 2
  MayHeal = FALSE
  None = None
SPECIFICATION Spec
INVARIANTS
  CacheIsNetActive
