\* Three transactions over six documents, one receipt finalized by two of them.
CONSTANTS
  s1 = s1
  s2 = s2
  r1 = r1
  r2 = r2
  w1 = w1
  v1 = v1
  NoDoc = NoDoc
  t1 = t1
  t2 = t2
  t3 = t3
  Txs = {t1, t2, t3}
  Docs <- Documents
  Kind <- KindOfEach
  Worth <- WorthOfEach
  Credit <- CreditOfEach
  OpeningLedger = 7
  OpeningStock = 9
SPECIFICATION Spec
INVARIANTS
  TypeOK
  AmountIsOwn
  RefusalsExplained
  ReceiptOnce
PROPERTIES
  GuardedKeepsGap
CHECK_DEADLOCK FALSE
